---- MODULE Spec2Model ----
(***************************************************************************)
(* Context-AI demo: the flat-file dataset store (utils/demo_data.py), the  *)
(* scenario data generator, the knowledge-graph builders                   *)
(* (utils/kg_generator.py, utils/pyvis_utils.py) and the data-loading part *)
(* of the loan-journey pages, and the navigation of app.py and the pages.  *)
(* Five specifications share the variables: Spec (the file store and the   *)
(* pages), RaceSpec (several sessions loading for the first time at once), *)
(* GraphSpec (the graphs built in memory), UiSpec (one session's script    *)
(* runs) and StateSpec (the session-state helpers of utils/state.py that   *)
(* no script calls, called one at a time).                                 *)
(***************************************************************************)
EXTENDS Integers, Sequences, FiniteSets, TLC

VARIABLES
    files,      \* the data/ directory: archetype -> file name -> 0 (absent), Unreadable, Mixed, or the number of the generation that wrote it
    clock,      \* number of generate_all_data calls that wrote files so far
    removed,    \* number of files deleted or damaged by hand so far
    page,       \* archetype -> outcome of the last run of its loan-journey page
    out,        \* what the last generate_all_data call printed: which archetypes it skipped / generated
    sessions,   \* browser session -> where its run of a loan-journey page stands
    load_result, \* what the load_applicant_data call of the last step returned, and for which archetype
    bundle,     \* applicant_data: the dataset bundle in memory ({} before one is generated)
    damaged,    \* whether the bundle has been made malformed since it was generated
    result,     \* the last get_graph_for_stage call: its arguments, the graph returned, the error printed
    layers,     \* the graphs of the three builders for one and the same input
    sequence,   \* the list create_kg_growth_sequence returned
    concentration, \* the graph create_customer_concentration_graph returned
    session_state, \* st.session_state of one browser session: key -> value, a key not set is not in its domain
    widgets,    \* the widget values of that session: the sidebar radio, the radio of the graph test page, the button just clicked, the widgets on screen
    run         \* the script the session shows, whether a run of it is due, how its last run (or the last helper call) ended, and the page list of the last track_page_flow result

storeVars == <<files, clock, removed, page, out, load_result, sessions>>

graphVars == <<bundle, damaged, result, layers, sequence, concentration>>

uiVars == <<session_state, widgets, run>>

vars == <<files, clock, removed, page, out, load_result, sessions, bundle, damaged, result, layers,
          sequence, concentration, session_state, widgets, run>>

(***************************************************************************)
(* Bounds of the model.                                                    *)
(***************************************************************************)
MaxRemovals == 2

MaxSeedStep == 1

MaxIndex == 13

MaxRows == 1

MaxPercentage == 100

NumSessions == 2

\* Consecutive st.rerun() calls followed before the session is left alone.
MaxReruns == 3

\* Largest absolute value increment_state is followed to.
MaxValue == 9

(***************************************************************************)
(* utils/demo_data.py: the file store.                                     *)
(***************************************************************************)
ApplicantTypes == {"strong_applicant", "unclear_applicant", "challenged_applicant"}

\* The archetypes that have a loan-journey page (pages/3_..., pages/4_...).
JourneyPages == {"strong_applicant", "unclear_applicant"}

\* The nine files generate_all_data saves for one archetype.
AllFiles ==
    {"company_profile.json", "financial_data.csv", "events.json",
     "risk_scores.csv", "external_context.json", "knowledge_graphs.json",
     "next_best_information.json", "reasoning_paths.json",
     "confidence_components.json"}

\* The files check_data_exists looks for.
BasicFiles ==
    {"company_profile.json", "financial_data.csv", "risk_scores.csv",
     "events.json", "external_context.json"}

\* check_data_exists(applicant_type): every basic file is present.
CheckDataExists_NoCheck(fs, a) == FALSE

CheckDataExists(fs, a) == \A f \in BasicFiles : fs[a][f] # 0

\* load_data(applicant_type, filename): a file is readable when it is present
\* and parses; an absent file (0) or an unparsable one (Unreadable) raises.
Unreadable == -1

\* A file two sessions wrote at once: the rows of the one that wrote last, then
\* what its shorter text left of the other's.  read_csv still parses it (one
\* more row, of one field).
Mixed == Unreadable - 1

Readable(fs, a, f) == fs[a][f] > 0 \/ fs[a][f] = Mixed

\* The nine reads of load_applicant_data, in the order of the dict literal:
\* the key of the bundle and the file it is read from.
LoadOrder ==
    << [key |-> "company_profile",       file |-> "company_profile.json"],
       [key |-> "financial_data",        file |-> "financial_data.csv"],
       [key |-> "events",                file |-> "events.json"],
       [key |-> "risk_scores",           file |-> "risk_scores.csv"],
       [key |-> "external_context",      file |-> "external_context.json"],
       [key |-> "knowledge_graphs",      file |-> "knowledge_graphs.json"],
       [key |-> "next_best_information", file |-> "next_best_information.json"],
       [key |-> "reasoning_paths",       file |-> "reasoning_paths.json"],
       [key |-> "confidence_components", file |-> "confidence_components.json"] >>

\* What load_applicant_data returns without a bundle: None.
None == [loaded |-> FALSE, data |-> <<>>]

\* except Exception as e: print(...); return None -- whatever was read so far
\* is dropped.
ExceptClause_KeepPartial(data) == [loaded |-> TRUE, data |-> data]

ExceptClause(data) == None

\* The reads from the k-th on, given the entries read so far; a read that
\* raises leaves the try block for the except clause.
RECURSIVE ReadFrom(_, _, _, _)
ReadFrom(fs, a, data, k) ==
    IF k > Len(LoadOrder) THEN [loaded |-> TRUE, data |-> data]
    ELSE IF ~Readable(fs, a, LoadOrder[k].file) THEN ExceptClause(data)
    ELSE ReadFrom(fs, a,
             data @@ (LoadOrder[k].key :> fs[a][LoadOrder[k].file]), k + 1)

\* load_applicant_data(applicant_type): reads the nine files in turn; any
\* failure (a missing or unparsable file) is caught and the result is None.
LoadApplicantData(fs, a) == ReadFrom(fs, a, <<>>, 1)

\* The archetypes one generate_all_data call skips.
SkippedBy(fs) == {a \in ApplicantTypes : CheckDataExists(fs, a)}

\* generate_all_data(): for every archetype whose existence check fails,
\* generate and save the nine files (stamped t); the others are skipped.
GenerateAllData(fs, t) ==
    [a \in ApplicantTypes |->
        IF CheckDataExists(fs, a) THEN fs[a] ELSE [f \in AllFiles |-> t]]

\* The generation stamp a call uses: a call that writes gets a new one.
NextClock(fs) == IF SkippedBy(fs) = ApplicantTypes THEN clock ELSE clock + 1

NoOutput == [called |-> FALSE, skipped |-> {}, generated |-> {}]

OutputOf(fs) ==
    [called |-> TRUE, skipped |-> SkippedBy(fs),
     generated |-> ApplicantTypes \ SkippedBy(fs)]

Returned(a, r) == [called |-> TRUE, applicant_type |-> a, loaded |-> r.loaded, data |-> r.data]

\* Browser sessions that open a loan-journey page at the same time: the odd
\* ones the strong applicant's page, the even ones the unclear applicant's.
Sessions == 1 .. NumSessions

PageOf(s) == IF s % 2 = 1 THEN "strong_applicant" ELSE "unclear_applicant"

\* for applicant_type in applicant_types (generate_all_data)
ApplicantOrder == <<"strong_applicant", "unclear_applicant", "challenged_applicant">>

\* A session about to run the page script: pc is the statement it is at, g the
\* archetype generate_all_data is at, k the file the load or the generation is at.
Started(s) == [pc |-> "load", page |-> PageOf(s), g |-> 1, k |-> 1]

StoreInit ==
    /\ files = [a \in ApplicantTypes |-> [f \in AllFiles |-> 0]]
    /\ clock = 0
    /\ removed = 0
    /\ page = [a \in JourneyPages |-> "not_run"]
    /\ out = NoOutput
    /\ load_result = [called |-> FALSE]
    /\ sessions = [s \in Sessions |-> Started(s)]

\* python utils/demo_data.py: generate_all_data() run on its own.
RunGenerateAllData ==
    /\ files' = GenerateAllData(files, NextClock(files))
    /\ clock' = NextClock(files)
    /\ out' = OutputOf(files)
    /\ load_result' = [called |-> FALSE]
    /\ UNCHANGED <<removed, page>>
    /\ UNCHANGED graphVars
    /\ UNCHANGED uiVars
    /\ UNCHANGED sessions

\* A file of the store is deleted by hand (the only way to invalidate the cache).
RemoveFile(a, f) ==
    /\ removed < MaxRemovals
    /\ files[a][f] # 0
    /\ files' = [files EXCEPT ![a][f] = 0]
    /\ removed' = removed + 1
    /\ out' = NoOutput
    /\ load_result' = [called |-> FALSE]
    /\ UNCHANGED <<clock, page>>
    /\ UNCHANGED graphVars
    /\ UNCHANGED uiVars
    /\ UNCHANGED sessions

\* A file of the store is damaged by hand: it stays in place but no longer
\* parses (an interrupted write, an edit).
DamageFile(a, f) ==
    /\ removed < MaxRemovals
    /\ files[a][f] > 0
    /\ files' = [files EXCEPT ![a][f] = Unreadable]
    /\ removed' = removed + 1
    /\ out' = NoOutput
    /\ load_result' = [called |-> FALSE]
    /\ UNCHANGED <<clock, page>>
    /\ UNCHANGED graphVars
    /\ UNCHANGED uiVars
    /\ UNCHANGED sessions

\* A caller loads the dataset of archetype a: load_applicant_data(a).
CallLoadApplicantData(a) ==
    /\ load_result' = Returned(a, LoadApplicantData(files, a))
    /\ out' = NoOutput
    /\ UNCHANGED <<files, clock, removed, page>>
    /\ UNCHANGED graphVars
    /\ UNCHANGED uiVars
    /\ UNCHANGED sessions

\* One run of the data-loading part of a loan-journey page:
\*   applicant_data = load_applicant_data(a)
\*   if not applicant_data: generate_all_data(); applicant_data = load_applicant_data(a)
\*   company = applicant_data["company_profile"]      (outside the try)
LoadData(a) ==
    /\ UNCHANGED sessions
    /\ IF LoadApplicantData(files, a).loaded
       THEN /\ page' = [page EXCEPT ![a] = "rendered"]
            /\ load_result' = Returned(a, LoadApplicantData(files, a))
            /\ out' = NoOutput
            /\ UNCHANGED <<files, clock, removed>>
       ELSE LET fs2 == GenerateAllData(files, NextClock(files)) IN
            /\ files' = fs2
            /\ clock' = NextClock(files)
            /\ out' = OutputOf(files)
            /\ load_result' = Returned(a, LoadApplicantData(fs2, a))
            /\ page' = [page EXCEPT ![a] =
                   IF LoadApplicantData(fs2, a).loaded THEN "rendered" ELSE "aborted"]
            /\ UNCHANGED removed

\* A loan-journey page run for its data loading alone.
PageRun(a) ==
    /\ LoadData(a)
    /\ UNCHANGED graphVars
    /\ UNCHANGED uiVars


(***************************************************************************)
(* Several sessions running the data-loading part of a page at once.  The  *)
(* steps are the file operations: one read of load_applicant_data, one     *)
(* existence check of generate_all_data, the open(..., 'w') of save_data   *)
(* (which creates or truncates the file) and the write that completes it.  *)
(***************************************************************************)

\* One read of load_applicant_data (the first call, "load", or the one after
\* generate_all_data, "reload").  A read that raises ends the call with None:
\* the first call then goes on to generate_all_data; after the second the
\* script subscripts None and the run aborts.
ReadStep(s) ==
    LET me == sessions[s] IN
    /\ me.pc \in {"load", "reload"}
    /\ sessions' = [sessions EXCEPT ![s] =
          IF ~Readable(files, me.page, LoadOrder[me.k].file)
          THEN IF me.pc = "load" THEN [me EXCEPT !.pc = "check", !.g = 1, !.k = 1]
               ELSE [me EXCEPT !.pc = "aborted"]
          ELSE IF me.k = Len(LoadOrder) THEN [me EXCEPT !.pc = "rendered"]
          ELSE [me EXCEPT !.k = me.k + 1]]
    /\ UNCHANGED <<files, clock, removed, page, out, load_result>>
    /\ UNCHANGED graphVars
    /\ UNCHANGED uiVars

\* generate_all_data: if check_data_exists(applicant_type): continue
CheckStep(s) ==
    LET me == sessions[s] IN
    /\ me.pc = "check"
    /\ sessions' = [sessions EXCEPT ![s] =
          IF ~CheckDataExists(files, ApplicantOrder[me.g])
          THEN [me EXCEPT !.pc = "open", !.k = 1]
          ELSE IF me.g = Len(ApplicantOrder) THEN [me EXCEPT !.pc = "reload", !.k = 1]
          ELSE [me EXCEPT !.g = me.g + 1]]
    /\ UNCHANGED <<files, clock, removed, page, out, load_result>>
    /\ UNCHANGED graphVars
    /\ UNCHANGED uiVars

\* save_data: open(path, 'w') -- the file exists from here on, empty.
OpenStep(s) ==
    LET me == sessions[s] IN
    /\ me.pc = "open"
    /\ files' = [files EXCEPT ![ApplicantOrder[me.g]][LoadOrder[me.k].file] = Unreadable]
    /\ sessions' = [sessions EXCEPT ![s] = [me EXCEPT !.pc = "dump"]]
    /\ UNCHANGED <<clock, removed, page, out, load_result>>
    /\ UNCHANGED graphVars
    /\ UNCHANGED uiVars

\* save_data: json.dump / to_csv writes the text from the start of the file
\* (generation 1).  open() truncated the file, so that whatever it holds now
\* another session wrote meanwhile, and a shorter text leaves the tail of
\* that one in place.  The two CSV files hold random.uniform values, whose
\* text differs in length from session to session; the JSON files are the
\* same text from every session.
DumpStep(s) ==
    LET me == sessions[s]
        a == ApplicantOrder[me.g]
        f == LoadOrder[me.k].file IN
    /\ me.pc = "dump"
    /\ \E w \in IF files[a][f] # Unreadable /\ f \in {"financial_data.csv", "risk_scores.csv"}
                THEN {1, Mixed} ELSE {1} :
          files' = [files EXCEPT ![a][f] = w]
    /\ sessions' = [sessions EXCEPT ![s] =
          IF me.k < Len(LoadOrder) THEN [me EXCEPT !.pc = "open", !.k = me.k + 1]
          ELSE IF me.g < Len(ApplicantOrder) THEN [me EXCEPT !.pc = "check", !.g = me.g + 1]
          ELSE [me EXCEPT !.pc = "reload", !.k = 1]]
    /\ UNCHANGED <<clock, removed, page, out, load_result>>
    /\ UNCHANGED graphVars
    /\ UNCHANGED uiVars

RaceNext ==
    \E s \in Sessions : ReadStep(s) \/ CheckStep(s) \/ OpenStep(s) \/ DumpStep(s)

(***************************************************************************)
(* utils/demo_data.py: the scenario data generator.                        *)
(*                                                                         *)
(* Numbers are fixed-point integers: money in cents, ratios in 1e-7,       *)
(* trend and noise factors in 1e-5, risk scores in 1e-6; the columns with  *)
(* a small base (customer_acquisition_cost, customer_lifetime_value,       *)
(* customer_traffic) in 1e-5 and inventory_turnover in 1e-6.               *)
(***************************************************************************)
MONTHS == 12

\* START_DATE + timedelta(days=30*i), in days after START_DATE.
DateOfMonth(i) == 30 * i

\* random.uniform(-v, v). The generator of one run is a seed [a, b]; its j-th
\* draw lies at NoiseLevels[..] percent of the way from 0 to the end of the
\* range, so that every draw of a run can come near both ends of its range.
\* The levels keep the drawn values off the halves that format(x, ".2f")
\* rounds by the binary expansion of the float.
NoiseLevels == <<-98, -62, -24, 6, 32, 68, 96>>

NumLevels == Len(NoiseLevels)

Seeds == [a : 0 .. NumLevels - 1, b : 0 .. MaxSeedStep]

Uniform(seed, j, v) ==
    (v * NoiseLevels[((seed.a + seed.b * j) % NumLevels) + 1]) \div 100

\* The draws of generate_financial_data come first (column k, month i), the
\* draws of generate_risk_scores after them.
FinDraw(k, i) == MONTHS * k + i

RiskDraw(k, i) == MONTHS * 9 + MONTHS * k + i

Max(x, y) == IF x >= y THEN x ELSE y

Min(x, y) == IF x <= y THEN x ELSE y

\* 1 + trend*i + noise, in 1e-5.
Factor(trend, i, u) == 100000 + trend * i + u

\* base * factor for a base amount in dollars (a multiple of 100), in cents.
Scaled(base, f) == ((base \div 100) * f) \div 10

\* generate_financial_data: base values and trends of an archetype
\* (trends and volatility in 1e-5, base ratios in 1e-2).
FinancialParams(a) ==
    IF a = "strong_applicant" THEN
        [base_revenue |-> 250000, revenue_trend |-> 3000,
         base_profit_margin |-> 18, margin_trend |-> 100,
         base_cash_balance |-> 180000, cash_trend |-> 2000,
         base_debt_ratio |-> 25, debt_trend |-> -500, volatility |-> 5000]
    ELSE IF a = "unclear_applicant" THEN
        [base_revenue |-> 420000, revenue_trend |-> 1000,
         base_profit_margin |-> 12, margin_trend |-> -200,
         base_cash_balance |-> 210000, cash_trend |-> 500,
         base_debt_ratio |-> 38, debt_trend |-> 100, volatility |-> 8000]
    ELSE
        [base_revenue |-> 580000, revenue_trend |-> -2000,
         base_profit_margin |-> 8, margin_trend |-> -400,
         base_cash_balance |-> 150000, cash_trend |-> -3000,
         base_debt_ratio |-> 45, debt_trend |-> 1000, volatility |-> 12000]

\* max(0.01, base_profit_margin * (1 + margin_trend*i + noise)), in 1e-7.
ProfitMargin(base, f) == Max(100000, base * f)

\* min(0.9, max(0.1, base_debt_ratio * (1 + debt_trend*i + noise))), in 1e-7.
DebtRatio(base, f) == Min(9000000, Max(1000000, base * f))

\* 0.72 * (1 + -0.005*i + noise), in 1e-7: stored as computed.
CapacityUtilization(f) == 72 * f

\* -0.03 * (1 - 0.1*i + noise), in 1e-7: stored as computed.
SameStoreSalesGrowth(f) == -3 * f

\* The industry-specific columns of month i.
IndustryMetrics(a, seed, i) ==
    LET p == FinancialParams(a)
        v == p.volatility
        U(k) == Uniform(seed, FinDraw(k, i), v)
    IN  IF a = "strong_applicant" THEN
            [customer_acquisition_cost |-> 350 * Factor(0, i, U(6)),
             monthly_recurring_revenue |->
                Scaled((p.base_revenue * 7) \div 10, Factor(p.revenue_trend, i, U(7))),
             customer_lifetime_value |-> 2100 * Factor(1000, i, U(8))]
        ELSE IF a = "unclear_applicant" THEN
            [raw_material_costs |->
                Scaled((p.base_revenue * 4) \div 10, Factor(1500, i, U(6))),
             capacity_utilization |-> CapacityUtilization(Factor(-500, i, U(7))),
             order_backlog |->
                Scaled((p.base_revenue * 12) \div 10, Factor(-1000, i, U(8)))]
        ELSE
            [same_store_sales_growth |-> SameStoreSalesGrowth(Factor(-10000, i, U(6))),
             inventory_turnover |-> 42 * Factor(-2000, i, U(7)),
             customer_traffic |-> 8500 * Factor(-2500, i, U(8))]

\* Row i (0-based) of generate_financial_data(applicant_type).
FinancialRow(a, seed, i) ==
    LET p == FinancialParams(a)
        v == p.volatility
        U(k) == Uniform(seed, FinDraw(k, i), v)
    IN  [date |-> DateOfMonth(i),
         revenue |-> Scaled(p.base_revenue, Factor(p.revenue_trend, i, U(0))),
         profit_margin |-> ProfitMargin(p.base_profit_margin, Factor(p.margin_trend, i, U(1))),
         cash_balance |-> Scaled(p.base_cash_balance, Factor(p.cash_trend, i, U(2))),
         debt_ratio |->
            DebtRatio(p.base_debt_ratio,
                      Factor(p.debt_trend, i, Uniform(seed, FinDraw(3, i), v \div 2))),
         accounts_receivable |-> Scaled((p.base_revenue * 3) \div 10, Factor(0, i, U(4))),
         inventory |-> Scaled(p.base_revenue \div 4, Factor(0, i, U(5)))]
        @@ IndustryMetrics(a, seed, i)

GenerateFinancialData(a, seed) == [n \in 1 .. MONTHS |-> FinancialRow(a, seed, n - 1)]

\* generate_risk_scores: base values, trends and volatility, in 1e-6.
RiskParams(a) ==
    IF a = "strong_applicant" THEN
        [base_risk |-> 250000, risk_trend |-> -10000,
         base_confidence |-> 750000, confidence_trend |-> 20000, volatility |-> 50000]
    ELSE IF a = "unclear_applicant" THEN
        [base_risk |-> 450000, risk_trend |-> 5000,
         base_confidence |-> 600000, confidence_trend |-> 10000, volatility |-> 80000]
    ELSE
        [base_risk |-> 650000, risk_trend |-> 20000,
         base_confidence |-> 550000, confidence_trend |-> 5000, volatility |-> 100000]

\* min(0.95, max(0.05, x)), in 1e-6.
ClampScore_NoClamp(x) == x

ClampScore(x) == Min(950000, Max(50000, x))

\* min(0.95, max(0.30, x)), in 1e-6.
ClampConfidence(x) == Min(950000, Max(300000, x))

\* Row i (0-based) of generate_risk_scores(applicant_type).
RiskRow(a, seed, i) ==
    LET p == RiskParams(a)
        U(k) == Uniform(seed, RiskDraw(k, i), p.volatility)
        risk == ClampScore(p.base_risk + p.risk_trend * i + U(0))
    IN  [date |-> DateOfMonth(i),
         risk_score |-> risk,
         confidence_score |->
            ClampConfidence(p.base_confidence + p.confidence_trend * i + U(1)),
         financial_health_score |-> ClampScore(1000000 - ((risk * 8) \div 10 + U(2))),
         management_risk_score |-> ClampScore((risk * 9) \div 10 + U(3)),
         industry_risk_score |-> ClampScore((risk * 11) \div 10 + U(4)),
         external_context_score |-> ClampScore((risk * 95) \div 100 + U(5))]

GenerateRiskScores_Short(a, seed) == [n \in 1 .. MONTHS - 1 |-> RiskRow(a, seed, n - 1)]

GenerateRiskScores(a, seed) == [n \in 1 .. MONTHS |-> RiskRow(a, seed, n - 1)]

\* generate_company_profile(applicant_type). customer_count and
\* largest_customer_percentage are kept as the text str() gives (120 -> "120"):
\* the builders only format them and compare them with "General public".
GenerateCompanyProfile(a) ==
    IF a = "strong_applicant" THEN
        [name |-> "TechInnovate Solutions",
         industry |-> "Software Development",
         business_type |-> "B2B SaaS Platform",
         years_in_business |-> 7,
         employees |-> 48,
         location |-> "Austin, TX",
         ownership_structure |-> "LLC",
         management_team_size |-> 5,
         management_experience_years |-> 15,
         customer_count |-> "120",
         largest_customer_percentage |-> "12",
         loan_amount_requested |-> 500000,
         loan_purpose |-> "Expansion into new markets",
         loan_term_requested |-> 5,
         collateral_offered |-> "Intellectual property and equipment",
         previous_loans |-> 1,
         previous_loans_repaid |-> 1,
         credit_score |-> "A",
         description |-> "TechInnovate Solutions provides cloud-based workflow automation software for professional services firms. With a stable customer base and strong management team, they're seeking funding to expand into healthcare and financial services verticals."]
    ELSE IF a = "unclear_applicant" THEN
        [name |-> "ManufacturePro Inc.",
         industry |-> "Manufacturing",
         business_type |-> "Custom Metal Fabrication",
         years_in_business |-> 12,
         employees |-> 73,
         location |-> "Detroit, MI",
         ownership_structure |-> "S-Corp",
         management_team_size |-> 4,
         management_experience_years |-> 20,
         customer_count |-> "45",
         largest_customer_percentage |-> "28",
         loan_amount_requested |-> 750000,
         loan_purpose |-> "Equipment modernization",
         loan_term_requested |-> 7,
         collateral_offered |-> "Equipment and property",
         previous_loans |-> 3,
         previous_loans_repaid |-> 3,
         credit_score |-> "B+",
         description |-> "ManufacturePro specializes in custom metal fabrication for automotive and aerospace industries. While they have a strong history, they face increasing competition from overseas and need to modernize equipment to remain competitive."]
    ELSE
        [name |-> "RetailGiant Stores",
         industry |-> "Retail",
         business_type |-> "Multi-location Retail Chain",
         years_in_business |-> 15,
         employees |-> 95,
         location |-> "Phoenix, AZ",
         ownership_structure |-> "C-Corp",
         management_team_size |-> 6,
         management_experience_years |-> 8,
         customer_count |-> "General public",
         largest_customer_percentage |-> "N/A",
         loan_amount_requested |-> 1200000,
         loan_purpose |-> "Debt consolidation and store renovations",
         loan_term_requested |-> 10,
         collateral_offered |-> "Real estate and inventory",
         previous_loans |-> 5,
         previous_loans_repaid |-> 4,
         credit_score |-> "C+",
         description |-> "RetailGiant operates a chain of general merchandise stores across Arizona. They face significant challenges from e-commerce disruption, have experienced recent management turnover, and need funding to consolidate existing debt and renovate stores to remain viable."]

\* generate_external_context(applicant_type): source name -> source; the
\* dict keeps insertion order, SourceOrder gives it. reliability in 1/100,
\* dates in days after START_DATE. An evidence item without "content" has none.
BaseContext ==
    [industry_trends |->
        [active |-> TRUE, reliability |-> 85, sources |-> <<
                [name |-> "Industry Growth Forecast", type |-> "report", reliability |-> 88, date |-> 45],
                [name |-> "Market Size Analysis", type |-> "market_research", reliability |-> 82, date |-> 60]>>],
     economic_indicators |->
        [active |-> TRUE, reliability |-> 92, sources |-> <<
                [name |-> "Federal Reserve Interest Rate Guidance", type |-> "official", reliability |-> 95, date |-> 30],
                [name |-> "Quarterly GDP Report", type |-> "official", reliability |-> 90, date |-> 50]>>]]

SpecificContext(a) ==
    IF a = "strong_applicant" THEN
    [technology_adoption |->
        [active |-> TRUE, reliability |-> 82, impact |-> 12, sources |-> <<
                [name |-> "SaaS Adoption Survey", type |-> "market_research", reliability |-> 78, date |-> 55, content |-> "Survey shows 42% increase in SaaS adoption among mid-sized businesses."],
                [name |-> "Cloud Technology Forecast", type |-> "analyst_report", reliability |-> 85, date |-> 70, content |-> "Projected 22% CAGR for cloud workflow solutions over next 5 years."]>>],
     competitive_landscape |->
        [active |-> TRUE, reliability |-> 75, impact |-> 8, sources |-> <<
                [name |-> "Competitor Funding News", type |-> "news", reliability |-> 70, date |-> 40, content |-> "Two competitors secured Series B funding, validating market potential."],
                [name |-> "Market Share Analysis", type |-> "market_research", reliability |-> 80, date |-> 65, content |-> "Company has gained 2.5% market share in the past year."]>>]]
    ELSE IF a = "unclear_applicant" THEN
    [supply_chain_issues |->
        [active |-> TRUE, reliability |-> 78, impact |-> -10, sources |-> <<
                [name |-> "Materials Cost Index", type |-> "industry_data", reliability |-> 85, date |-> 35, content |-> "Raw material costs increased 15% over past quarter."],
                [name |-> "Supply Chain Disruption Report", type |-> "news", reliability |-> 72, date |-> 55, content |-> "Transportation delays affecting 40% of manufacturers in the sector."]>>],
     automation_trends |->
        [active |-> TRUE, reliability |-> 80, impact |-> 15, sources |-> <<
                [name |-> "Manufacturing Automation Report", type |-> "industry_report", reliability |-> 82, date |-> 60, content |-> "Companies investing in automation seeing 28% efficiency improvements."],
                [name |-> "Industry 4.0 Adoption Study", type |-> "academic_research", reliability |-> 88, date |-> 75, content |-> "Early adopters of smart manufacturing technologies showing 22% cost advantage."]>>]]
    ELSE
    [retail_disruption |->
        [active |-> TRUE, reliability |-> 90, impact |-> -25, sources |-> <<
                [name |-> "Retail Sector Analysis", type |-> "industry_report", reliability |-> 92, date |-> 30, content |-> "Physical retail locations decreasing at 8% annually in this segment."],
                [name |-> "E-commerce Impact Study", type |-> "market_research", reliability |-> 88, date |-> 50, content |-> "E-commerce now accounts for 35% of sales in this category, up from 22% last year."]>>],
     consumer_behavior |->
        [active |-> TRUE, reliability |-> 75, impact |-> -18, sources |-> <<
                [name |-> "Consumer Spending Trends", type |-> "market_research", reliability |-> 78, date |-> 40, content |-> "In-store visits down 22% year-over-year for this retail category."],
                [name |-> "Shopping Pattern Analysis", type |-> "behavioral_research", reliability |-> 72, date |-> 65, content |-> "Consumers increasingly research online before making purchases, with 62% comparing prices digitally."]>>]]

SourceOrder(a) ==
    IF a = "strong_applicant" THEN <<"industry_trends", "economic_indicators", "technology_adoption", "competitive_landscape">>
    ELSE IF a = "unclear_applicant" THEN <<"industry_trends", "economic_indicators", "supply_chain_issues", "automation_trends">>
    ELSE <<"industry_trends", "economic_indicators", "retail_disruption", "consumer_behavior">>

\* generate_external_context(applicant_type): the map and its key order.
GenerateExternalContext(a) ==
    [order |-> SourceOrder(a), source |-> BaseContext @@ SpecificContext(a)]

\* The part of load_applicant_data's bundle the graph builders read.
GeneratedBundle(a, seed) ==
    [company_profile |-> GenerateCompanyProfile(a),
     financial_data |-> GenerateFinancialData(a, seed),
     risk_scores |-> GenerateRiskScores(a, seed),
     external_context |-> GenerateExternalContext(a)]

(***************************************************************************)
(* utils/kg_generator.py: the knowledge-graph builders.                    *)
(*                                                                         *)
(* A graph is networkx's Graph: a map node id -> attributes and a map      *)
(* {u, v} -> attributes. A node id or a tooltip, an f-string in the code,  *)
(* is the sequence of its literal parts and formatted values.              *)
(***************************************************************************)
COLORS ==
    [primary |-> "#3B82F6", digital_twin |-> "#4F46E5", temporal |-> "#10B981",
     external |-> "#F59E0B", guidance |-> "#EC4899", low_confidence |-> "#EF4444",
     edge_default |-> "#475569"]

NoAttrs == [k \in {} |-> 0]

EmptyGraph == [node |-> NoAttrs, edge |-> NoAttrs]

\* G.add_node(n, **attrs): a new node, or new attribute values for an old one.
AddNode_NoTooltip(G, n, attrs) ==
    [G EXCEPT !.node =
        (n :> [k \in DOMAIN attrs \ {"title"} |-> attrs[k]]) @@ @]

AddNode(G, n, attrs) ==
    [G EXCEPT !.node =
        (n :> (attrs @@ (IF n \in DOMAIN @ THEN @[n] ELSE NoAttrs))) @@ @]

\* G.add_edge(u, v, **attrs): also adds u and v, without attributes, when new.
AddEdge_NodesOnly(G, u, v, attrs) ==
    [G EXCEPT !.node = @ @@ (u :> NoAttrs) @@ (v :> NoAttrs)]

AddEdge(G, u, v, attrs) ==
    [node |-> G.node @@ (u :> NoAttrs) @@ (v :> NoAttrs),
     edge |-> ({u, v} :> (attrs @@ (IF {u, v} \in DOMAIN G.edge
                                     THEN G.edge[{u, v}] ELSE NoAttrs)))
              @@ G.edge]

\* The floats the f-strings format are binary doubles. A value the data holds
\* as the decimal N / Q is the double nearest to it; the operators below find
\* on which side of the decimal that double lies, with integers below 2^31.

\* floor(log2(N / Q)) for N, Q > 0, counted up from e = 0.
RECURSIVE Log2(_, _, _)
Log2(N, Q, e) ==
    IF N >= Q
    THEN IF Q <= N \div (2 ^ (e + 1)) THEN Log2(N, Q, e + 1) ELSE e
    ELSE IF N * (2 ^ e) < Q THEN Log2(N, Q, e + 1) ELSE 0 - e

\* k more binary digits of a fraction R / Q: what is left of it (in Q-ths of
\* the last digit's place), the last digit, and how far the nearest value of
\* that many digits is: below for less than half a place left, above for
\* more, the one with an even last digit at the half.
RECURSIVE Doublings(_, _, _, _)
Doublings(R, last, Q, k) ==
    IF k <= 0
    THEN <<R, last, IF 2 * R < Q \/ (2 * R = Q /\ last = 0) THEN 0 - R ELSE Q - R>>
    ELSE IF 2 * R >= Q THEN Doublings(2 * R - Q, 1, Q, k - 1)
    ELSE Doublings(2 * R, 0, Q, k - 1)

\* float("N/Q") - N / Q, in Q-ths of the double's last place: N / Q is cut
\* to the 53 significant bits of a double, and the double is the nearest
\* value of 53 bits; 0 when N / Q is a double itself.
FloatError[N \in Nat, Q \in Nat] ==
    Doublings(N % Q, (N \div Q) % 2, Q, 52 - Log2(N, Q, 0))[3]

\* The side of t = 100 * N / Q on which the float product float("N/Q") * 100
\* lies (-1, 0, 1), for Q a multiple of 100: the double nearest to N / Q is
\* multiplied by 100 and the product rounded once more, to the double nearest
\* to it.  a is the first rounding's error in Q-ths of the last place of
\* N / Q, cut what 53 bits leave of t (in Qp-ths of its last place), s the
\* number of binary places between the last place of t and that of N / Q;
\* below a power of two the doubles are half as far apart.
ProductError[N \in Nat, Q \in Nat] ==
    LET a == FloatError[N, Q]
        Qp == Q \div 100
        e == Log2(N, Qp, 0)
        cut == Doublings(N % Qp, (N \div Qp) % 2, Qp, 52 - e)
        s == e - Log2(N, Q, 0)
        half == (2 ^ (s - 1)) * Qp
        pow2 == IF e >= 0 THEN N = Qp * (2 ^ e) ELSE N * (2 ^ (0 - e)) = Qp
        below == IF pow2 THEN half \div 2 ELSE half
        mid == (Qp - 2 * cut[1]) * (2 ^ (s - 1))
    IN  IF cut[1] = 0
        THEN IF a > half \/ (a = half /\ cut[2] = 1) THEN 1
             ELSE IF 0 - a > below \/ (0 - a = below /\ cut[2] = 1 /\ ~pow2) THEN 0 - 1
             ELSE 0
        ELSE IF a < mid \/ (a = mid /\ cut[2] = 0) THEN 0 - 1 ELSE 1

\* The digits format(.., ".nf") prints for a float on the side `err` of the
\* decimal x >= 0, in units: the decimal decides, except half way between two
\* results, where the float does (err is read there only), and half-even
\* when the float is that half.
RoundHalfEven(x, unit, err) ==
    LET q == x \div unit
        r == x % unit
    IN  IF 2 * r > unit THEN q + 1
        ELSE IF 2 * r < unit THEN q
        ELSE IF err > 0 THEN q + 1
        ELSE IF err < 0 THEN q
        ELSE q + (q % 2)

\* format(.., ".nf") of the float x / scale itself (error is FloatError) or
\* of its product by 100 (ProductError): the sign, then the rounded magnitude
\* in units / scale ("-0.0" keeps its sign).
Fmt(x, scale, unit, error) ==
    <<IF x < 0 THEN "-" ELSE "",
      RoundHalfEven(IF x < 0 THEN 0 - x ELSE x, unit,
                    error[IF x < 0 THEN 0 - x ELSE x, scale])>>

\* str(x) of the float x / 1e6 is its shortest decimal: what format(x, ".2f")
\* prints when that has two decimals and the second is not 0, and another
\* text otherwise ("0.1" for "0.10", "0.123" for "0.12").
Str(x) ==
    IF x % 10000 = 0 /\ (x \div 10000) % 10 # 0 THEN Fmt(x, 1000000, 10000, FloatError)
    ELSE <<"str", x>>

\* d.get(key, default)
Get(d, key, default) == IF key \in DOMAIN d THEN d[key] ELSE default

\* G, computed: each statement of a builder works on the graph the statements
\* before it have left, so a loop computes its graph before its next iteration.
Built(G) == G = G

\* A category node joined to the root (size 20, edge width 2).
AddCategory_NoEdge(G, root, name, title, color) ==
    AddNode(G, name, [size |-> 20, color |-> color, title |-> title])

AddCategory(G, root, name, title, color) ==
    AddEdge(AddNode(G, name, [size |-> 20, color |-> color, title |-> title]),
            root, name, [width |-> 2])

\* for info in list: G.add_node(info["name"], size=15, ...); G.add_edge(parent, info["name"], width=1)
RECURSIVE AddLeaves(_, _, _, _)
AddLeaves(G, parent, leaves, color) ==
    IF leaves = <<>> \/ ~Built(G) THEN G
    ELSE AddLeaves(
            AddEdge(AddNode(G, Head(leaves).name,
                            [size |-> 15, color |-> color, title |-> Head(leaves).title]),
                    parent, Head(leaves).name, [width |-> 1]),
            parent, Tail(leaves), color)

\* The profile keys create_initial_knowledge_graph subscripts, in the order it does.
RequiredProfileKeys ==
    <<"name", "industry", "business_type", "years_in_business", "employees",
      "location", "loan_amount_requested", "loan_purpose", "loan_term_requested",
      "collateral_offered", "credit_score", "previous_loans", "previous_loans_repaid">>

\* create_initial_knowledge_graph(company_profile)
CreateInitialKnowledgeGraph(p) ==
    LET root == <<p.name>>
        G0 == AddNode(EmptyGraph, root,
                      [size |-> 30, color |-> COLORS.digital_twin, title |-> <<p.name>>])
        G1 == AddCategory(G0, root, <<"Basic Information">>,
                          <<"Basic Company Information">>, COLORS.primary)
        G2 == AddLeaves(G1, <<"Basic Information">>,
                <<[name |-> <<"Industry: ", p.industry>>,
                   title |-> <<"Industry: ", p.industry>>],
                  [name |-> <<"Business Type: ", p.business_type>>,
                   title |-> <<"Business Type: ", p.business_type>>],
                  [name |-> <<"Years in Business: ", p.years_in_business>>,
                   title |-> <<"Years in Business: ", p.years_in_business>>],
                  [name |-> <<"Employees: ", p.employees>>,
                   title |-> <<"Employees: ", p.employees>>],
                  [name |-> <<"Location: ", p.location>>,
                   title |-> <<"Location: ", p.location>>]>>,
                COLORS.primary)
        G3 == AddCategory(G2, root, <<"Loan Request">>,
                          <<"Loan Request Details">>, COLORS.primary)
        G4 == AddLeaves(G3, <<"Loan Request">>,
                <<[name |-> <<"Amount: $", p.loan_amount_requested>>,
                   title |-> <<"Loan Amount: $", p.loan_amount_requested>>],
                  [name |-> <<"Purpose: ", p.loan_purpose>>,
                   title |-> <<"Loan Purpose: ", p.loan_purpose>>],
                  [name |-> <<"Term: ", p.loan_term_requested, " years">>,
                   title |-> <<"Loan Term: ", p.loan_term_requested, " years">>],
                  [name |-> <<"Collateral: ", p.collateral_offered>>,
                   title |-> <<"Collateral: ", p.collateral_offered>>]>>,
                COLORS.primary)
        G5 == AddCategory(G4, root, <<"Credit History">>,
                          <<"Credit History">>, COLORS.primary)
    IN  AddLeaves(G5, <<"Credit History">>,
                <<[name |-> <<"Credit Score: ", p.credit_score>>,
                   title |-> <<"Credit Score: ", p.credit_score>>],
                  [name |-> <<"Previous Loans: ", p.previous_loans>>,
                   title |-> <<"Previous Loans: ", p.previous_loans>>],
                  [name |-> <<"Loans Repaid: ", p.previous_loans_repaid>>,
                   title |-> <<"Loans Repaid: ", p.previous_loans_repaid>>]>>,
                COLORS.primary)

\* financial_data / risk_data as the builders receive it: a Series (one row,
\* what get_graph_for_stage passes) or a DataFrame (all rows).
Series(row) == [is_frame |-> FALSE, row |-> row]

DataFrame(rows) == [is_frame |-> TRUE, rows |-> rows]

\* if isinstance(data, pd.DataFrame) and len(data) > 0: data = data.iloc[0].to_dict()
FirstRow(data) == IF data.is_frame THEN data.rows[1] ELSE data.row

\* A leaf whose id and tooltip are the same label followed by a formatted value.
Metric(label, titleLabel, value, suffix) ==
    [name |-> <<label>> \o value \o suffix, title |-> <<titleLabel>> \o value \o suffix]

\* The industry-specific metrics of create_expanded_knowledge_graph.
AddIndustryMetrics(G, p, f) ==
    LET root == <<p.name>> IN
    IF p.industry = "Software Development" /\ "customer_acquisition_cost" \in DOMAIN f THEN
        AddLeaves(AddCategory(G, root, <<"SaaS Metrics">>, <<"SaaS Business Metrics">>,
                              COLORS.primary),
            <<"SaaS Metrics">>,
            <<Metric("CAC: $", "Customer Acquisition Cost: $",
                     Fmt(Get(f, "customer_acquisition_cost", 0), 100000, 100000, FloatError), <<>>),
              Metric("MRR: $", "Monthly Recurring Revenue: $",
                     Fmt(Get(f, "monthly_recurring_revenue", 0), 100, 100, FloatError), <<>>),
              Metric("LTV: $", "Customer Lifetime Value: $",
                     Fmt(Get(f, "customer_lifetime_value", 0), 100000, 100000, FloatError), <<>>)>>,
            COLORS.primary)
    ELSE IF p.industry = "Manufacturing" /\ "raw_material_costs" \in DOMAIN f THEN
        AddLeaves(AddCategory(G, root, <<"Manufacturing Metrics">>,
                              <<"Manufacturing Metrics">>, COLORS.primary),
            <<"Manufacturing Metrics">>,
            <<Metric("Material Costs: $", "Raw Material Costs: $",
                     Fmt(Get(f, "raw_material_costs", 0), 100, 100, FloatError), <<>>),
              Metric("Capacity Utilization: ", "Capacity Utilization: ",
                     Fmt(Get(f, "capacity_utilization", 0), 10000000, 10000, ProductError), <<"%">>),
              Metric("Order Backlog: $", "Order Backlog: $",
                     Fmt(Get(f, "order_backlog", 0), 100, 100, FloatError), <<>>)>>,
            COLORS.primary)
    ELSE IF p.industry = "Retail" /\ "same_store_sales_growth" \in DOMAIN f THEN
        AddLeaves(AddCategory(G, root, <<"Retail Metrics">>, <<"Retail Metrics">>,
                              COLORS.primary),
            <<"Retail Metrics">>,
            <<Metric("Same Store Sales Growth: ", "Same Store Sales Growth: ",
                     Fmt(Get(f, "same_store_sales_growth", 0), 10000000, 10000, ProductError), <<"%">>),
              Metric("Inventory Turnover: ", "Inventory Turnover: ",
                     Fmt(Get(f, "inventory_turnover", 0), 1000000, 100000, FloatError), <<"x">>),
              Metric("Customer Traffic: ", "Monthly Customer Traffic: ",
                     Fmt(Get(f, "customer_traffic", 0), 100000, 100000, FloatError), <<>>)>>,
            COLORS.primary)
    ELSE G

\* The "Customers" category of create_expanded_knowledge_graph.
AddCustomers_Always(G, p) ==
    AddLeaves(AddCategory(G, <<p.name>>, <<"Customers">>, <<"Customer Information">>,
                          COLORS.primary),
        <<"Customers">>,
        <<[name |-> <<"Count: ", Get(p, "customer_count", "Unknown")>>,
           title |-> <<"Customer Count: ", Get(p, "customer_count", "Unknown")>>],
          [name |-> <<"Concentration: ",
                      Get(p, "largest_customer_percentage", "Unknown"), "%">>,
           title |-> <<"Largest Customer: ",
                       Get(p, "largest_customer_percentage", "Unknown"),
                       "% of revenue">>]>>,
        COLORS.primary)

AddCustomers(G, p) ==
    IF "customer_count" \in DOMAIN p /\ p.customer_count # "General public" THEN
        AddLeaves(AddCategory(G, <<p.name>>, <<"Customers">>, <<"Customer Information">>,
                              COLORS.primary),
            <<"Customers">>,
            <<[name |-> <<"Count: ", Get(p, "customer_count", "Unknown")>>,
               title |-> <<"Customer Count: ", Get(p, "customer_count", "Unknown")>>],
              [name |-> <<"Concentration: ",
                          Get(p, "largest_customer_percentage", "Unknown"), "%">>,
               title |-> <<"Largest Customer: ",
                           Get(p, "largest_customer_percentage", "Unknown"),
                           "% of revenue">>]>>,
            COLORS.primary)
    ELSE G

\* The layers create_expanded_knowledge_graph adds to the graph G it starts from.
ExpandOn(G, p, financial_data) ==
    LET root == <<p.name>>
        f == FirstRow(financial_data)
        G1 == AddCategory(G, root, <<"Financial Metrics">>, <<"Financial Metrics">>,
                          COLORS.primary)
        G2 == AddLeaves(G1, <<"Financial Metrics">>,
                <<Metric("Revenue: $", "Revenue: $", Fmt(Get(f, "revenue", 0), 100, 100, FloatError), <<>>),
                  Metric("Profit Margin: ", "Profit Margin: ",
                         Fmt(Get(f, "profit_margin", 0), 10000000, 10000, ProductError), <<"%">>),
                  Metric("Cash Balance: $", "Cash Balance: $",
                         Fmt(Get(f, "cash_balance", 0), 100, 100, FloatError), <<>>),
                  Metric("Debt Ratio: ", "Debt Ratio: ",
                         Fmt(Get(f, "debt_ratio", 0), 10000000, 100000, FloatError), <<>>)>>,
                COLORS.primary)
        G3 == AddIndustryMetrics(G2, p, f)
        G4 == AddCategory(G3, root, <<"Management">>, <<"Management Information">>,
                          COLORS.primary)
        G5 == AddLeaves(G4, <<"Management">>,
                <<[name |-> <<"Team Size: ", Get(p, "management_team_size", "Unknown")>>,
                   title |-> <<"Management Team Size: ",
                               Get(p, "management_team_size", "Unknown")>>],
                  [name |-> <<"Experience: ",
                              Get(p, "management_experience_years", "Unknown"), " years">>,
                   title |-> <<"Average Experience: ",
                               Get(p, "management_experience_years", "Unknown"),
                               " years">>]>>,
                COLORS.primary)
    IN  AddCustomers(G5, p)

\* create_expanded_knowledge_graph(company_profile, financial_data)
CreateExpandedKnowledgeGraph_Fresh(p, financial_data) ==
    ExpandOn(AddNode(EmptyGraph, <<p.name>>,
                     [size |-> 30, color |-> COLORS.digital_twin, title |-> <<p.name>>]),
             p, financial_data)

CreateExpandedKnowledgeGraph(p, financial_data) ==
    ExpandOn(CreateInitialKnowledgeGraph(p), p, financial_data)

\* The risk metrics of create_comprehensive_knowledge_graph: the two scores,
\* then each component score the record has.
RiskMetrics(r) ==
    LET Score(label, titleLabel, key) ==
            Metric(label, titleLabel, Fmt(Get(r, key, 0), 1000000, 10000, FloatError), <<>>)
        Opt(label, titleLabel, key) ==
            IF key \in DOMAIN r THEN <<Score(label, titleLabel, key)>> ELSE <<>>
    IN  <<Score("Risk Score: ", "Overall Risk Score: ", "risk_score"),
          Score("Confidence: ", "Confidence Score: ", "confidence_score")>>
        \o Opt("Financial Health: ", "Financial Health Score: ", "financial_health_score")
        \o Opt("Management Risk: ", "Management Risk Score: ", "management_risk_score")
        \o Opt("Industry Risk: ", "Industry Risk Score: ", "industry_risk_score")
        \o Opt("External Risk: ", "External Context Risk Score: ", "external_context_score")

\* external_context=None, or an empty map: nothing to add.
NoContext == [order |-> <<>>, source |-> NoAttrs]

\* The first two evidence items of a context source, as nodes under it.
RECURSIVE AddEvidence(_, _, _, _)
AddEvidence(G, sourceNode, items, i) ==
    IF i > Len(items) \/ ~Built(G) THEN G
    ELSE LET src == items[i]
             detail == <<Get(src, "name", "Source")>>
             next == IF i - 1 < 2
                     THEN AddEdge(AddNode(G, detail,
                                    [size |-> 10, color |-> COLORS.external,
                                     title |-> <<Get(src, "content", Get(src, "name", "Source"))>>]),
                                  sourceNode, detail, [width |-> 1])
                     ELSE G
         IN  AddEvidence(next, sourceNode, items, i + 1)

\* for source_name, source_data in external_context.items(): the active sources.
RECURSIVE AddSources(_, _, _)
AddSources(G, ctx, order) ==
    IF order = <<>> \/ ~Built(G) THEN G
    ELSE LET source_name == Head(order)
             source_data == ctx.source[source_name]
             G1 == AddEdge(AddNode(G, <<source_name>>,
                             [size |-> 15, color |-> COLORS.external,
                              title |-> <<source_name, " (Reliability: ">>
                                        \o Fmt(Get(source_data, "reliability", 0), 100, 1, FloatError)
                                        \o <<")">>]),
                           <<"External Context">>, <<source_name>>, [width |-> 1])
             G2 == IF "sources" \in DOMAIN source_data
                   THEN AddEvidence(G1, <<source_name>>, source_data.sources, 1)
                   ELSE G1
         IN  AddSources(IF Get(source_data, "active", FALSE) THEN G2 ELSE G,
                        ctx, Tail(order))

\* if external_context: the "External Context" category and its sources.
AddExternalContext_Always(G, p, ctx) ==
    AddSources(AddCategory(G, <<p.name>>, <<"External Context">>,
                           <<"External Context">>, COLORS.external),
               ctx, ctx.order)

AddExternalContext(G, p, ctx) ==
    IF ctx.order # <<>>
    THEN AddSources(AddCategory(G, <<p.name>>, <<"External Context">>,
                                <<"External Context">>, COLORS.external),
                    ctx, ctx.order)
    ELSE G

\* The trend leaves of the temporal layer, by industry.
Trends(industry) ==
    IF industry = "Software Development" THEN
        <<[name |-> <<"Growth Trend">>, title |-> <<"Consistent revenue growth pattern">>],
          [name |-> <<"Margin Stability">>, title |-> <<"Stable profit margins over time">>],
          [name |-> <<"Increasing LTV/CAC Ratio">>, title |-> <<"Improving unit economics">>]>>
    ELSE IF industry = "Manufacturing" THEN
        <<[name |-> <<"Capacity Utilization Trend">>,
           title |-> <<"Changing factory utilization over time">>],
          [name |-> <<"Material Cost Pressure">>, title |-> <<"Rising raw material costs">>],
          [name |-> <<"Order Backlog Evolution">>, title |-> <<"Changing order pipeline">>]>>
    ELSE IF industry = "Retail" THEN
        <<[name |-> <<"Store Traffic Decline">>,
           title |-> <<"Decreasing customer visits over time">>],
          [name |-> <<"Margin Compression">>, title |-> <<"Decreasing profit margins">>],
          [name |-> <<"Inventory Turnover Slowdown">>,
           title |-> <<"Slowing inventory movement">>]>>
    ELSE
        <<[name |-> <<"Revenue Trend">>, title |-> <<"Revenue change over time">>],
          [name |-> <<"Margin Trend">>, title |-> <<"Profit margin evolution">>],
          [name |-> <<"Cash Flow Pattern">>, title |-> <<"Cash flow stability over time">>]>>

\* if isinstance(financial_data, pd.DataFrame) and len(financial_data) > 1: the temporal layer.
AddTemporal(G, p, financial_data) ==
    IF financial_data.is_frame /\ Len(financial_data.rows) > 1
    THEN AddLeaves(AddCategory(G, <<p.name>>, <<"Temporal Intelligence">>,
                               <<"Temporal Intelligence">>, COLORS.temporal),
                   <<"Temporal Intelligence">>, Trends(p.industry), COLORS.temporal)
    ELSE G

\* "x" in G.nodes
HasNode(G, n) == n \in DOMAIN G.node

\* The cross-connections create_comprehensive_knowledge_graph adds last. The
\* tests look for the bare labels ("Financial Health: ") among the node ids,
\* and the edges name the score with str(), not with the ".2f" of the leaf.
AddCrossConnections(G, r) ==
    LET cross == [width |-> 1, color |-> COLORS.edge_default]
        G1 == IF HasNode(G, <<"Financial Health: ">>)
                 /\ \E n \in DOMAIN G.node : n[1] = "Financial Metrics"
              THEN AddEdge(G, <<"Financial Health: ">>
                                \o Str(Get(r, "financial_health_score", 0)),
                           <<"Financial Metrics">>, cross)
              ELSE G
        G2 == IF HasNode(G1, <<"Industry Risk: ">>) /\ HasNode(G1, <<"External Context">>)
              THEN AddEdge(G1, <<"Industry Risk: ">>
                                \o Str(Get(r, "industry_risk_score", 0)),
                           <<"External Context">>, cross)
              ELSE G1
        G3 == IF HasNode(G2, <<"Management Risk: ">>) /\ HasNode(G2, <<"Management">>)
              THEN AddEdge(G2, <<"Management Risk: ">>
                                \o Str(Get(r, "management_risk_score", 0)),
                           <<"Management">>, cross)
              ELSE G2
        G4 == IF HasNode(G3, <<"External Context">>) /\ HasNode(G3, <<"Financial Metrics">>)
              THEN AddEdge(G3, <<"External Context">>, <<"Financial Metrics">>, cross)
              ELSE G3
    IN  IF HasNode(G4, <<"Temporal Intelligence">>) /\ HasNode(G4, <<"Financial Metrics">>)
        THEN AddEdge(G4, <<"Temporal Intelligence">>, <<"Financial Metrics">>, cross)
        ELSE G4

\* create_comprehensive_knowledge_graph(company_profile, financial_data, risk_data, external_context)
CreateComprehensiveKnowledgeGraph(p, financial_data, risk_data, external_context) ==
    LET r == FirstRow(risk_data)
        G0 == CreateExpandedKnowledgeGraph(p, financial_data)
        G1 == AddCategory(G0, <<p.name>>, <<"Risk Assessment">>, <<"Risk Assessment">>,
                          COLORS.guidance)
        G2 == AddLeaves(G1, <<"Risk Assessment">>, RiskMetrics(r), COLORS.guidance)
        G3 == AddExternalContext(G2, p, external_context)
        G4 == AddTemporal(G3, p, financial_data)
    IN  AddCrossConnections(G4, r)

\* The five journey stages, in order (generate_knowledge_graphs.stages).
Stages ==
    <<"Initial Application", "Information Gathering", "Risk Assessment",
      "Decision Point", "Monitoring Phase">>

\* create_pyvis_graph(G): what the renderer hands to the drawing library for
\* a node and for an edge -- the attribute of the graph, or its default.
PyvisNode(n, attrs) ==
    [id |-> n, label |-> n,
     size |-> Get(attrs, "size", 25),
     title |-> Get(attrs, "title", n),
     color |-> Get(attrs, "color", "#64748B")]

PyvisEdge(attrs) ==
    [width |-> Get(attrs, "width", 1),
     color |-> Get(attrs, "color", COLORS.edge_default),
     title |-> Get(attrs, "title", <<>>)]

\* The default stage_to_index of get_graph_for_stage.
DefaultStageToIndex ==
    [s \in {Stages[k] : k \in 1 .. Len(Stages)} |->
        CASE s = "Initial Application" -> 0
          [] s = "Information Gathering" -> 2
          [] s = "Risk Assessment" -> 5
          [] s = "Decision Point" -> 8
          [] s = "Monitoring Phase" -> 11]

\* stage_to_index=None
NoMapping == [given |-> FALSE, map |-> NoAttrs]

Mapping(m) == [given |-> TRUE, map |-> m]

\* str(e) of the KeyError a missing key raises, and of iloc's IndexError.
KeyErrorText(k) == <<"'", k, "'">>

IndexErrorText == <<"single positional indexer is out-of-bounds">>

NoError == <<>>

\* data.iloc[i] is defined for -len <= i < len.
IlocOk(rows, i) == -Len(rows) <= i /\ i < Len(rows)

Iloc(rows, i) == IF i >= 0 THEN rows[i + 1] ELSE rows[Len(rows) + i + 1]

\* The first key of keys that d lacks, as <<key>>, or <<>>.
RECURSIVE FirstMissing(_, _)
FirstMissing(d, keys) ==
    IF keys = <<>> THEN <<>>
    ELSE IF Head(keys) \notin DOMAIN d THEN <<Head(keys)>>
    ELSE FirstMissing(d, Tail(keys))

\* current_index: stage_to_index.get(journey_stage, 0), then
\* if current_index >= len(financial_data): current_index = len(financial_data) - 1
CurrentIndex_ClampBoth(applicant_data, journey_stage, stage_to_index) ==
    Min(Get(IF stage_to_index.given THEN stage_to_index.map ELSE DefaultStageToIndex,
            journey_stage, 0),
        Min(Len(applicant_data.financial_data), Len(applicant_data.risk_scores)) - 1)

CurrentIndex_NoClamp(applicant_data, journey_stage, stage_to_index) ==
    Get(IF stage_to_index.given THEN stage_to_index.map ELSE DefaultStageToIndex,
        journey_stage, 0)

CurrentIndex(applicant_data, journey_stage, stage_to_index) ==
    LET index == Get(IF stage_to_index.given THEN stage_to_index.map
                     ELSE DefaultStageToIndex, journey_stage, 0)
    IN  IF index >= Len(applicant_data.financial_data)
        THEN Len(applicant_data.financial_data) - 1
        ELSE index

\* The exception raised inside the try of get_graph_for_stage, as str(e), or
\* NoError: a missing component of the bundle, a row that iloc cannot give,
\* a profile key the builder subscripts.
ErrorRaised_StrictLookup(applicant_data, journey_stage, stage_to_index) ==
    LET missing == FirstMissing(applicant_data,
                        <<"company_profile", "financial_data", "risk_scores">>)
        index == CurrentIndex(applicant_data, journey_stage, stage_to_index)
        key == FirstMissing(applicant_data.company_profile, RequiredProfileKeys)
        keyError == IF key = <<>> THEN NoError ELSE KeyErrorText(key[1])
        map == IF stage_to_index.given THEN stage_to_index.map ELSE DefaultStageToIndex
    IN  IF missing # <<>> THEN KeyErrorText(missing[1])
        ELSE IF journey_stage \notin DOMAIN map THEN KeyErrorText(journey_stage)
        ELSE IF journey_stage = "Initial Application" THEN keyError
        ELSE IF ~IlocOk(applicant_data.financial_data, index) THEN IndexErrorText
        ELSE IF journey_stage = "Information Gathering" THEN keyError
        ELSE IF ~IlocOk(applicant_data.risk_scores, index) THEN IndexErrorText
        ELSE keyError

ErrorRaised(applicant_data, journey_stage, stage_to_index) ==
    LET missing == FirstMissing(applicant_data,
                        <<"company_profile", "financial_data", "risk_scores">>)
        index == CurrentIndex(applicant_data, journey_stage, stage_to_index)
        key == FirstMissing(applicant_data.company_profile, RequiredProfileKeys)
        keyError == IF key = <<>> THEN NoError ELSE KeyErrorText(key[1])
    IN  IF missing # <<>> THEN KeyErrorText(missing[1])
        ELSE IF journey_stage = "Initial Application" THEN keyError
        ELSE IF ~IlocOk(applicant_data.financial_data, index) THEN IndexErrorText
        ELSE IF journey_stage = "Information Gathering" THEN keyError
        ELSE IF ~IlocOk(applicant_data.risk_scores, index) THEN IndexErrorText
        ELSE keyError

\* The fallback graph of the except branch.
FallbackGraph_NoTitle(e) ==
    AddNode(EmptyGraph, <<"Error">>, [size |-> 25, color |-> COLORS.low_confidence])

FallbackGraph(e) ==
    AddNode(EmptyGraph, <<"Error">>,
            [size |-> 25, color |-> COLORS.low_confidence,
             title |-> <<"Error generating graph: ">> \o e])

\* The graph the try block returns when nothing is raised.
StageGraph_AlwaysComprehensive(applicant_data, journey_stage, stage_to_index) ==
    LET index == CurrentIndex(applicant_data, journey_stage, stage_to_index)
    IN  CreateComprehensiveKnowledgeGraph(
            applicant_data.company_profile,
            Series(Iloc(applicant_data.financial_data, index)),
            Series(Iloc(applicant_data.risk_scores, index)),
            Get(applicant_data, "external_context", NoContext))

StageGraph(applicant_data, journey_stage, stage_to_index) ==
    LET index == CurrentIndex(applicant_data, journey_stage, stage_to_index)
        p == applicant_data.company_profile
    IN  IF journey_stage = "Initial Application"
        THEN CreateInitialKnowledgeGraph(p)
        ELSE IF journey_stage = "Information Gathering"
        THEN CreateExpandedKnowledgeGraph(p, Series(Iloc(applicant_data.financial_data, index)))
        ELSE CreateComprehensiveKnowledgeGraph(
                p, Series(Iloc(applicant_data.financial_data, index)),
                Series(Iloc(applicant_data.risk_scores, index)),
                Get(applicant_data, "external_context", NoContext))

\* get_graph_for_stage(applicant_data, journey_stage, stage_to_index): the
\* graph returned and the error printed ("Error generating graph: ...").
GetGraphForStage(applicant_data, journey_stage, stage_to_index) ==
    LET e == ErrorRaised(applicant_data, journey_stage, stage_to_index)
    IN  IF e # NoError
        THEN [G |-> FallbackGraph(e), printed |-> e]
        ELSE [G |-> StageGraph(applicant_data, journey_stage, stage_to_index),
              printed |-> NoError]

(***************************************************************************)
(* utils/pyvis_utils.py: create_kg_growth_sequence.                        *)
(***************************************************************************)
\* Leaves whose tooltip is their id.
RECURSIVE Details(_)
Details(names) ==
    IF names = <<>> THEN <<>>
    ELSE <<[name |-> <<Head(names)>>, title |-> <<Head(names)>>]>> \o Details(Tail(names))

CrossEdge == [width |-> 1, color |-> COLORS.edge_default]

\* Stage 1: basic application data.
GrowthStage1 ==
    LET root == <<"TechInnovate">>
        G0 == AddNode(EmptyGraph, root,
                      [size |-> 30, color |-> COLORS.digital_twin, title |-> <<"Company Entity">>])
        G1 == AddLeaves(AddCategory(G0, root, <<"Basic Info">>, <<"Basic Information">>,
                                    COLORS.primary),
                        <<"Basic Info">>,
                        Details(<<"Software Industry", "7 Years in Business", "48 Employees">>),
                        COLORS.primary)
    IN  AddLeaves(AddCategory(G1, root, <<"Loan Request">>, <<"Loan Request">>,
                              COLORS.primary),
                  <<"Loan Request">>,
                  Details(<<"Amount: $500K", "Purpose: Expansion", "Term: 5 years">>),
                  COLORS.primary)

\* Stage 2: G2 = G1.copy(), plus financial data.
GrowthStage2(G1) ==
    LET root == <<"TechInnovate">>
        Ga == AddLeaves(AddCategory(G1, root, <<"Financial Metrics">>,
                                    <<"Financial Information">>, COLORS.primary),
                        <<"Financial Metrics">>,
                        Details(<<"Revenue: $2.4M", "Profit Margin: 18%",
                                  "Cash Balance: $750K", "Debt Ratio: 0.3">>),
                        COLORS.primary)
        Gb == AddLeaves(AddCategory(Ga, root, <<"SaaS Metrics">>,
                                    <<"SaaS Business Metrics">>, COLORS.primary),
                        <<"SaaS Metrics">>,
                        Details(<<"CAC: $1,200", "LTV: $6,500", "MRR: $200K">>),
                        COLORS.primary)
    IN  AddEdge(Gb, <<"Software Industry">>, <<"SaaS Metrics">>, CrossEdge)

\* Stage 3: G3 = G2.copy(), plus external context.
GrowthStage3(G2) ==
    LET root == <<"TechInnovate">>
        Ga == AddLeaves(AddCategory(G2, root, <<"External Context">>,
                                    <<"External Context">>, COLORS.external),
                        <<"External Context">>,
                        Details(<<"Market Growth: 15%", "Tech Investment Trends",
                                  "Competitive Landscape", "Regulatory Environment">>),
                        COLORS.external)
        Gb == AddEdge(Ga, <<"Market Growth: 15%">>, <<"Revenue: $2.4M">>, CrossEdge)
        Gc == AddEdge(Gb, <<"Tech Investment Trends">>, <<"LTV: $6,500">>, CrossEdge)
    IN  AddEdge(Gc, <<"Competitive Landscape">>, <<"CAC: $1,200">>, CrossEdge)

\* Stage 4: G4 = G3.copy(), plus risk assessment and recommendations.
GrowthStage4(G3) ==
    LET root == <<"TechInnovate">>
        Ga == AddLeaves(AddCategory(G3, root, <<"Risk Assessment">>,
                                    <<"Risk Analysis">>, COLORS.guidance),
                        <<"Risk Assessment">>,
                        Details(<<"Financial Health: Strong", "Market Position: Growing",
                                  "Overall Risk: Low">>),
                        COLORS.guidance)
        Gb == AddLeaves(AddCategory(Ga, root, <<"Recommendations">>,
                                    <<"Adaptive Guidance">>, COLORS.guidance),
                        <<"Recommendations">>,
                        Details(<<"Approve Standard Terms", "Quarterly Monitoring",
                                  "Upsell Opportunity">>),
                        COLORS.guidance)
        Gc == AddEdge(Gb, <<"Financial Health: Strong">>, <<"Financial Metrics">>, CrossEdge)
        Gd == AddEdge(Gc, <<"Market Position: Growing">>, <<"External Context">>, CrossEdge)
    IN  AddEdge(Gd, <<"Approve Standard Terms">>, <<"Overall Risk: Low">>, CrossEdge)

\* G.copy(): a new graph object holding the nodes, edges and attributes of
\* the object at ref; heap is the list of the graph objects created so far.
CopyOf_Alias(heap, ref) == [heap |-> heap, ref |-> ref]

CopyOf(heap, ref) == [heap |-> Append(heap, heap[ref]), ref |-> Len(heap) + 1]

\* The graph objects create_kg_growth_sequence creates and the objects its
\* names G1..G4 refer to: each stage's statements act on the object its name
\* refers to.
GrowthObjects ==
    LET h1 == <<GrowthStage1>>
        c2 == CopyOf(h1, 1)
        h2 == [c2.heap EXCEPT ![c2.ref] = GrowthStage2(@)]
        c3 == CopyOf(h2, c2.ref)
        h3 == [c3.heap EXCEPT ![c3.ref] = GrowthStage3(@)]
        c4 == CopyOf(h3, c3.ref)
        h4 == [c4.heap EXCEPT ![c4.ref] = GrowthStage4(@)]
    IN  [heap |-> h4, G1 |-> 1, G2 |-> c2.ref, G3 |-> c3.ref, G4 |-> c4.ref]

\* create_kg_growth_sequence(): [G1, G2, G3, G4], as the caller sees them.
CreateKgGrowthSequence ==
    LET o == GrowthObjects
    IN  <<o.heap[o.G1], o.heap[o.G2], o.heap[o.G3], o.heap[o.G4]>>

(***************************************************************************)
(* utils/pyvis_utils.py: create_customer_concentration_graph.  The sizes   *)
(* and widths of this graph are in tenths (a width of 4.2 is 42).          *)
(***************************************************************************)
Customers ==
    << [name |-> "Customer A", revenue |-> "$210K", percentage |-> 42,
        color |-> COLORS.low_confidence],
       [name |-> "Customer B", revenue |-> "$84K", percentage |-> 17,
        color |-> "#EAB308"],
       [name |-> "Customer C", revenue |-> "$63K", percentage |-> 13,
        color |-> COLORS.primary],
       [name |-> "Customer D", revenue |-> "$42K", percentage |-> 8,
        color |-> COLORS.primary],
       [name |-> "Customer E", revenue |-> "$21K", percentage |-> 4,
        color |-> COLORS.primary],
       [name |-> "Others", revenue |-> "$80K", percentage |-> 16,
        color |-> COLORS.primary] >>

\* node_name = f"{customer['name']}: {customer['percentage']}%"
CustomerNode(c) == <<c.name, ": ", c.percentage, "%">>

\* edge_width = max(1, customer['percentage'] / 10), in tenths.
EdgeWidth_Inverse(percentage) == Max(10, 1000 \div (percentage + 1))

EdgeWidth(percentage) == Max(10, percentage)

\* for customer in customers: the customer's node and its edge from "Customer Base".
RECURSIVE AddCustomerNodes(_, _)
AddCustomerNodes(G, customers) ==
    IF customers = <<>> \/ ~Built(G) THEN G
    ELSE LET c == Head(customers)
         IN  AddCustomerNodes(
                 AddEdge(AddNode(G, CustomerNode(c),
                                 [size |-> 100 + 5 * c.percentage, color |-> c.color,
                                  title |-> <<c.name, ": ", c.revenue, " (",
                                              c.percentage, "%)">>]),
                         <<"Customer Base">>, CustomerNode(c),
                         [width |-> EdgeWidth(c.percentage)]),
                 Tail(customers))

\* G.add_node(name, size=..., color=..., title=...); G.add_edge(parent, name, width=...)
Hang(G, parent, name, size, color, title, width) ==
    AddEdge(AddNode(G, <<name>>, [size |-> size, color |-> color, title |-> <<title>>]),
            <<parent>>, <<name>>, [width |-> width])

CreateCustomerConcentrationGraph ==
    LET root == "ManufacturePro"
        risk == "Customer Concentration Risk"
        G0 == AddNode(EmptyGraph, <<root>>,
                      [size |-> 300, color |-> COLORS.digital_twin,
                       title |-> <<"Manufacturing Company">>])
        G1 == Hang(G0, root, "Customer Base", 250, COLORS.primary,
                   "Company's Customers", 30)
        G2 == AddCustomerNodes(G1, Customers)
        G3 == Hang(G2, root, "Risk Assessment", 250, COLORS.guidance, "Risk Analysis", 30)
        G4 == Hang(G3, "Risk Assessment", risk, 200, COLORS.low_confidence,
                   "High concentration risk with Customer A", 20)
        G5 == AddEdge(G4, <<"Customer A", ": ", 42, "%">>, <<risk>>,
                      [width |-> 20, color |-> COLORS.low_confidence])
        G6 == Hang(G5, root, "Industry Context", 250, COLORS.external,
                   "Manufacturing Industry Context", 30)
        G7 == Hang(G6, "Industry Context", "Industry Standard: 20% Max", 150,
                   COLORS.external,
                   "Industry recommendation: maximum 20% from single customer", 10)
        G8 == AddEdge(G7, <<"Industry Standard: 20% Max">>, <<risk>>,
                      [width |-> 10, color |-> COLORS.edge_default])
        G9 == Hang(G8, root, "Recommendations", 250, COLORS.guidance,
                   "Adaptive Guidance", 30)
        G10 == Hang(G9, "Recommendations", "Customer Diversification Plan", 150,
                    COLORS.guidance, "Develop plan to reduce Customer A concentration", 20)
        G11 == Hang(G10, "Recommendations", "Modified Loan Terms", 150, COLORS.guidance,
                    "Adjust terms to account for concentration risk", 20)
        G12 == AddEdge(G11, <<risk>>, <<"Customer Diversification Plan">>,
                       [width |-> 10, color |-> COLORS.edge_default])
    IN  AddEdge(G12, <<risk>>, <<"Modified Loan Terms">>,
                [width |-> 10, color |-> COLORS.edge_default])

(***************************************************************************)
(* The dataset bundle in memory and the graphs built from it.              *)
(***************************************************************************)
\* Containment of graphs: every node and every edge of G is one of H.
Subgraph(G, H) ==
    /\ DOMAIN G.node \subseteq DOMAIN H.node
    /\ DOMAIN G.edge \subseteq DOMAIN H.edge

StageNames == {Stages[k] : k \in 1 .. Len(Stages)}

\* The profile keys a hand-edited company_profile.json may lack: the ones the
\* builders subscript and one they read with .get().
ProfileKeys ==
    {RequiredProfileKeys[k] : k \in 1 .. Len(RequiredProfileKeys)}
        \cup {"management_team_size", "customer_count"}

NoResult == [called |-> FALSE]

NoLayers == [built |-> FALSE]

Loaded == DOMAIN bundle # {}

\* Nothing has been built from the bundle yet.
Unused == ~result.called /\ ~layers.built

\* Nothing has happened yet.
Fresh == ~Loaded /\ sequence = <<>> /\ ~concentration.built

(***************************************************************************)
(* The user interface of one browser session: app.py, the knowledge-graph  *)
(* page and the two loan-journey pages, each a script Streamlit runs from  *)
(* top to bottom on every user action and on every st.rerun().  The        *)
(* session state is a dict: a key is in it exactly when it is in           *)
(* DOMAIN session_state.  Pages 1 (Understanding Knowledge Graphs) and 5   *)
(* (Interactive Graph Test) use the file store only; the remaining pages   *)
(* read and write neither.                                                 *)
(***************************************************************************)
\* st.session_state[key] = value for every key of values: the keys are set
\* whether present or not.
Assign(state, values) ==
    [k \in DOMAIN state \cup DOMAIN values |->
        IF k \in DOMAIN values THEN values[k] ELSE state[k]]

\* utils/state.py, init_session_state(defaults): only the keys not yet present are set.
InitSessionState_Overwrite(state, defaults) ==
    [k \in DOMAIN state \cup DOMAIN defaults |->
        IF k \in DOMAIN defaults THEN defaults[k] ELSE state[k]]

InitSessionState(state, defaults) ==
    [k \in DOMAIN state \cup DOMAIN defaults |->
        IF k \in DOMAIN state THEN state[k] ELSE defaults[k]]

\* app.py: the options of the sidebar radio, in order.
Pages ==
    <<"Home", "Architecture Overview", "Digital Twin Layer",
      "Temporal Intelligence Layer", "External Integration Layer",
      "Adaptive Guidance Layer", "Loan Journey Demo", "Beyond Finance">>

\* selected_page.lower().replace(" ", "_") on each option of the radio.
LowerReplace(selected_page) ==
    CASE selected_page = "Home" -> "home"
      [] selected_page = "Architecture Overview" -> "architecture_overview"
      [] selected_page = "Digital Twin Layer" -> "digital_twin_layer"
      [] selected_page = "Temporal Intelligence Layer" -> "temporal_intelligence_layer"
      [] selected_page = "External Integration Layer" -> "external_integration_layer"
      [] selected_page = "Adaptive Guidance Layer" -> "adaptive_guidance_layer"
      [] selected_page = "Loan Journey Demo" -> "loan_journey_demo"
      [] selected_page = "Beyond Finance" -> "beyond_finance"

\* app.py: the if/elif chain that displays the selected page. Each branch calls
\* a function whose def statement comes later in the script, so the name is
\* not bound yet when the branch runs.
Dispatch(current) ==
    CASE current = "home" -> <<"NameError", "show_home_page">>
      [] current = "architecture_overview" -> <<"NameError", "show_architecture_page">>
      [] current = "digital_twin_layer" -> <<"NameError", "show_digital_twin_page">>
      [] current = "temporal_intelligence_layer" -> <<"NameError", "show_temporal_intelligence_page">>
      [] current = "external_integration_layer" -> <<"NameError", "show_external_integration_page">>
      [] current = "adaptive_guidance_layer" -> <<"NameError", "show_adaptive_guidance_page">>
      [] current = "loan_journey_demo" -> <<"NameError", "show_loan_journey_page">>
      [] current = "beyond_finance" -> <<"NameError", "show_beyond_finance_page">>
      [] OTHER -> <<"nothing">>

\* app.py: if selected_page != st.session_state.page
PageDiffers(selected_page, current) == selected_page # current

\* pages/1_Understanding_Knowledge_Graphs.py and
\* pages/5_Interactive_Graph_Test.py: the pages that load the dataset of the
\* strong applicant for an example graph.
ExamplePages == {"understanding_knowledge_graphs", "interactive_graph_test"}

\* The scripts of the session that use the session state or the file store:
\* app.py, pages/2_Understanding_Knowlegde_Graphs.py, the example pages and
\* the loan-journey page of an archetype.
Scripts == {"app", "knowledge_graphs"} \cup ExamplePages \cup JourneyPages

\* pages/5_Interactive_Graph_Test.py: viz_options, with streamlit_agraph and
\* pyvis both installed.
VizOptions == <<"Agraph", "PyVis">>

\* The widgets before any script has drawn them: the radios at their first
\* option, the Debug Mode checkbox at value=False.
NoWidgets ==
    [radio |-> Pages[1], clicked |-> "none", debug |-> FALSE, on_screen |-> {},
     viz_choice |-> VizOptions[1]]

\* journey_stages[current_stage_idx]: Python subscripting, negative indices
\* counting from the end.
Subscript(list, i) ==
    IF i >= 0 /\ i < Len(list) THEN <<"ok", list[i + 1]>>
    ELSE IF i < 0 /\ -i <= Len(list) THEN <<"ok", list[Len(list) + i + 1]>>
    ELSE <<"IndexError">>

\* The three events generate_events gives every archetype, dates in days
\* after START_DATE.
BaseEvents ==
    <<[days |-> 0, event |-> "Initial loan application submitted", type |-> "info"],
      [days |-> 14, event |-> "Financial statements requested", type |-> "info"],
      [days |-> 21, event |-> "Financial statements received", type |-> "info"]>>

\* The events generate_events adds for one archetype.
SpecificEvents(a) ==
    IF a = "strong_applicant" THEN
        <<[days |-> 35, event |-> "New customer contract signed", type |-> "positive"],
          [days |-> 60, event |-> "Industry growth report published", type |-> "positive"],
          [days |-> 75, event |-> "Preliminary approval issued", type |-> "positive"],
          [days |-> 90, event |-> "Final terms accepted", type |-> "positive"]>>
    ELSE IF a = "unclear_applicant" THEN
        <<[days |-> 30, event |-> "Customer concentration clarification requested", type |-> "warning"],
          [days |-> 45, event |-> "Supply chain disruption reported", type |-> "warning"],
          [days |-> 65, event |-> "Updated business plan requested", type |-> "info"],
          [days |-> 85, event |-> "Conditional approval issued", type |-> "info"]>>
    ELSE
        <<[days |-> 28, event |-> "Management changes disclosed", type |-> "negative"],
          [days |-> 42, event |-> "E-commerce impact report published", type |-> "negative"],
          [days |-> 50, event |-> "Late payment on existing loan", type |-> "negative"],
          [days |-> 70, event |-> "Restructuring plan requested", type |-> "warning"],
          [days |-> 95, event |-> "Application declined", type |-> "negative"]>>

\* (START_DATE + timedelta(days=n)).strftime("%Y-%m-%d") with START_DATE the
\* first of January 2023, as <<year, month, day>>: the order of the strings is
\* the order of these triples.
DaysInMonth == <<31, 28, 31, 30, 31, 30, 31, 31, 30, 31, 30, 31>>

RECURSIVE MonthAndDay(_, _)
MonthAndDay(n, month) ==
    IF n < DaysInMonth[month] THEN <<2023, month, n + 1>>
    ELSE MonthAndDay(n - DaysInMonth[month], month + 1)

Strftime(n) == MonthAndDay(n, 1)

\* generate_events(applicant_type): events, then events.extend([...]).
GenerateEvents_SpecificFirst(a) ==
    [k \in 1 .. Len(SpecificEvents(a) \o BaseEvents) |->
        [date |-> Strftime((SpecificEvents(a) \o BaseEvents)[k].days),
         event |-> (SpecificEvents(a) \o BaseEvents)[k].event,
         type |-> (SpecificEvents(a) \o BaseEvents)[k].type]]

GenerateEvents(a) ==
    [k \in 1 .. Len(BaseEvents \o SpecificEvents(a)) |->
        [date |-> Strftime((BaseEvents \o SpecificEvents(a))[k].days),
         event |-> (BaseEvents \o SpecificEvents(a))[k].event,
         type |-> (BaseEvents \o SpecificEvents(a))[k].type]]

\* datetime.strptime(d1, "%Y-%m-%d") > datetime.strptime(d2, "%Y-%m-%d")
DateAfter(d1, d2) ==
    \/ d1[1] > d2[1]
    \/ d1[1] = d2[1] /\ d1[2] > d2[2]
    \/ d1[1] = d2[1] /\ d1[2] = d2[2] /\ d1[3] > d2[3]

\* [e for e in events if ...]: the events that pass the test, in list order.
RECURSIVE Filter(_, _)
Filter(events, after) ==
    IF events = <<>> THEN <<>>
    ELSE (IF DateAfter(Head(events).date, after) THEN <<Head(events)>> ELSE <<>>)
            \o Filter(Tail(events), after)

\* The timeline a loan-journey page draws at a stage: in the Monitoring Phase
\* page 3 goes through all the events, page 4 through those after the first
\* of March 2023; at the other stages there is none.
Timeline(a, current_stage) ==
    IF current_stage # "Monitoring Phase" THEN <<>>
    ELSE IF a = "strong_applicant" THEN GenerateEvents(a)
    ELSE Filter(GenerateEvents(a), <<2023, 3, 1>>)

\* pages 3 and 4: if current_stage_idx > 0 (the Previous Stage button is drawn)
PreviousAvailable(current_stage_idx, journey_stages) == current_stage_idx > 0

\* pages 3 and 4: if current_stage_idx < len(journey_stages) - 1
NextAvailable_Always(current_stage_idx, journey_stages) == TRUE

NextAvailable(current_stage_idx, journey_stages) ==
    current_stage_idx < Len(journey_stages) - 1

UiInit ==
    /\ session_state = NoAttrs
    /\ widgets = NoWidgets
    /\ run = [script |-> "none", due |-> FALSE, reruns |-> 0,
              shown |-> <<"nothing">>, stage_set_on |-> "none", flow |-> <<>>]

\* The run ended normally: what it drew stays on screen.
Ended(shown, on_screen) ==
    /\ widgets' = [widgets EXCEPT !.clicked = "none", !.on_screen = on_screen]
    /\ run' = [run EXCEPT !.due = FALSE, !.reruns = 0, !.shown = shown]

\* The run ended in st.rerun(): the same script is due again at once.
\* set_on is the script that last changed journey_stage.
Rerun(on_screen, set_on) ==
    /\ widgets' = [widgets EXCEPT !.clicked = "none", !.on_screen = on_screen]
    /\ run' = [run EXCEPT !.due = TRUE, !.reruns = @ + 1, !.shown = <<"rerun">>,
                          !.stage_set_on = set_on]

\* The user opens app.py or one of the pages from Streamlit's page list,
\* between runs or between the reruns of a script.
Open(script) ==
    /\ ~run.due \/ run.shown = <<"rerun">>
    /\ script # run.script
    /\ run' = [run EXCEPT !.script = script, !.due = TRUE, !.reruns = 0]
    /\ widgets' = NoWidgets
    /\ UNCHANGED session_state
    /\ UNCHANGED storeVars
    /\ UNCHANGED graphVars

\* The user clicks a button that is on screen.
Click(button) ==
    /\ ~run.due
    /\ button \in widgets.on_screen \ {"Go to", "Debug Mode"}
    /\ widgets' = [widgets EXCEPT !.clicked = button]
    /\ run' = [run EXCEPT !.due = TRUE, !.reruns = 0]
    /\ UNCHANGED session_state
    /\ UNCHANGED storeVars
    /\ UNCHANGED graphVars

\* The user picks another option of the sidebar radio; the radio is on screen
\* between reruns too.
Select(option) ==
    /\ "Go to" \in widgets.on_screen
    /\ option # widgets.radio
    /\ widgets' = [widgets EXCEPT !.radio = option, !.clicked = "none"]
    /\ run' = [run EXCEPT !.due = TRUE, !.reruns = 0]
    /\ UNCHANGED session_state
    /\ UNCHANGED storeVars
    /\ UNCHANGED graphVars

\* The user ticks or unticks the Debug Mode checkbox of a loan-journey page.
Toggle ==
    /\ ~run.due
    /\ "Debug Mode" \in widgets.on_screen
    /\ widgets' = [widgets EXCEPT !.debug = ~@, !.clicked = "none"]
    /\ run' = [run EXCEPT !.due = TRUE, !.reruns = 0]
    /\ UNCHANGED session_state
    /\ UNCHANGED storeVars
    /\ UNCHANGED graphVars

\* The user picks the other option of the radio of
\* pages/5_Interactive_Graph_Test.py: the script runs again.
SelectVisualization(option) ==
    /\ ~run.due
    /\ "Select visualization to test:" \in widgets.on_screen
    /\ option # widgets.viz_choice
    /\ widgets' = [widgets EXCEPT !.viz_choice = option, !.clicked = "none"]
    /\ run' = [run EXCEPT !.due = TRUE, !.reruns = 0]
    /\ UNCHANGED session_state
    /\ UNCHANGED storeVars
    /\ UNCHANGED graphVars

\* pages 3 and 4, if debug_mode: page 3 reads G, which is assigned only after
\* the block; page 4 does not.
DebugBlock(a) ==
    IF a = "strong_applicant" THEN <<"NameError", "G">> ELSE <<"ok">>

\* One run of app.py.
AppRun ==
    /\ run.script = "app"
    /\ run.due
    /\ run.reruns < MaxReruns
    /\ LET state == InitSessionState(session_state, [page |-> "home", show_intro |-> TRUE])
       IN  IF state.show_intro
           THEN IF widgets.clicked = "skip_intro"
                THEN /\ session_state' = [state EXCEPT !.show_intro = FALSE]
                     /\ Rerun({"skip_intro"}, run.stage_set_on)
                ELSE /\ session_state' = state
                     /\ Ended(<<"introduction">>, {"skip_intro"})
           ELSE IF PageDiffers(widgets.radio, state.page)
                THEN /\ session_state' = [state EXCEPT !.page = LowerReplace(widgets.radio)]
                     /\ Rerun({"Go to"}, run.stage_set_on)
                ELSE /\ session_state' = state
                     /\ Ended(Dispatch(state.page), {"Go to"})
    /\ UNCHANGED storeVars
    /\ UNCHANGED graphVars

\* One run of the loan-journey page of archetype a: the session state, the
\* data loading (which generates the files when the first load returns None),
\* then the stage shown with its timeline, the debug block and the navigation
\* buttons at the end of the script.  When the second load returns None too,
\* the script ends at applicant_data["company_profile"].
JourneyRun(a) ==
    /\ run.script = a
    /\ run.due
    /\ run.reruns < MaxReruns
    /\ LoadData(a)
    /\ LET state == InitSessionState(session_state, [journey_stage |-> 0])
           journey_stages == Stages
           current_stage_idx == state.journey_stage
           current_stage == Subscript(journey_stages, current_stage_idx)
           debug == IF widgets.debug THEN DebugBlock(a) ELSE <<"ok">>
           previous == IF PreviousAvailable(current_stage_idx, journey_stages)
                       THEN {"Previous Stage"} ELSE {}
           next == IF NextAvailable(current_stage_idx, journey_stages)
                   THEN {"Next Stage"} ELSE {}
       IN  IF page'[a] = "aborted"
           THEN /\ session_state' = state
                /\ Ended(<<"TypeError", "NoneType">>, {})
           ELSE IF current_stage[1] # "ok"
           THEN /\ session_state' = state
                /\ Ended(current_stage, {})
           ELSE IF debug[1] # "ok"
           THEN /\ session_state' = state
                /\ Ended(debug, {"Debug Mode"})
           ELSE IF widgets.clicked \in previous
           THEN /\ session_state' = [state EXCEPT !.journey_stage = @ - 1]
                /\ Rerun({"Debug Mode"} \cup previous, a)
           ELSE IF widgets.clicked \in next
           THEN /\ session_state' = [state EXCEPT !.journey_stage = @ + 1]
                /\ Rerun({"Debug Mode"} \cup previous \cup next, a)
           ELSE /\ session_state' = state
                /\ Ended(<<"stage", current_stage[2], Timeline(a, current_stage[2])>>,
                         {"Debug Mode"} \cup previous \cup next)
    /\ UNCHANGED graphVars

\* One run of pages/2_Understanding_Knowlegde_Graphs.py: the three flags are
\* set when show_basic is absent, each button reads its flag for its type and,
\* when it is the one clicked, sets all three, and the graph is drawn with the
\* layers the flags select.  The script asks for no rerun.
KnowledgeGraphsRun ==
    /\ run.script = "knowledge_graphs"
    /\ run.due
    /\ LET state == IF "show_basic" \notin DOMAIN session_state
                    THEN Assign(session_state, [show_basic |-> TRUE, show_financial |-> FALSE,
                                                show_external |-> FALSE])
                    ELSE session_state
           basic == IF widgets.clicked = "Basic Company Info"
                    THEN Assign(state, [show_basic |-> TRUE, show_financial |-> FALSE,
                                        show_external |-> FALSE])
                    ELSE state
           financial == IF widgets.clicked = "Add Financial Data"
                        THEN Assign(basic, [show_basic |-> TRUE, show_financial |-> TRUE,
                                            show_external |-> FALSE])
                        ELSE basic
           external == IF widgets.clicked = "Add External Context"
                       THEN Assign(financial, [show_basic |-> TRUE, show_financial |-> TRUE,
                                               show_external |-> TRUE])
                       ELSE financial
       IN  IF "show_financial" \notin DOMAIN basic
           THEN /\ session_state' = basic
                /\ Ended(<<"AttributeError", "show_financial">>, {"Basic Company Info"})
           ELSE IF "show_external" \notin DOMAIN financial
           THEN /\ session_state' = financial
                /\ Ended(<<"AttributeError", "show_external">>,
                         {"Basic Company Info", "Add Financial Data"})
           ELSE /\ session_state' = external
                /\ Ended(<<"graph", external.show_basic, external.show_financial,
                           external.show_external>>,
                         {"Basic Company Info", "Add Financial Data", "Add External Context"})
    /\ UNCHANGED storeVars
    /\ UNCHANGED graphVars

\* One run of an example page.  Inside a try:
\*   applicant_data = load_applicant_data("strong_applicant")
\*   if not applicant_data: generate_all_data(); applicant_data = load_applicant_data("strong_applicant")
\*   company = applicant_data["company_profile"]
\* and the example graph; except Exception shows the error, so the run ends
\* normally either way.  Page 1 loads once more further down, from the same
\* files.  After a successful load page 5 draws the radio
\* "Select visualization to test:" and the graph in the chosen library.
ExampleRun(script) ==
    /\ run.script = script
    /\ run.due
    /\ LET a == "strong_applicant"
           first == LoadApplicantData(files, a)
           fs2 == IF first.loaded THEN files ELSE GenerateAllData(files, NextClock(files))
           applicant_data == LoadApplicantData(fs2, a)
       IN  /\ files' = fs2
           /\ clock' = IF first.loaded THEN clock ELSE NextClock(files)
           /\ out' = IF first.loaded THEN NoOutput ELSE OutputOf(files)
           /\ load_result' = Returned(a, applicant_data)
           /\ Ended(IF applicant_data.loaded THEN <<"example_graph">>
                    ELSE <<"error", "TypeError">>,
                    IF applicant_data.loaded /\ script = "interactive_graph_test"
                    THEN {"Select visualization to test:"} ELSE {})
    /\ UNCHANGED session_state
    /\ UNCHANGED <<removed, page, sessions>>
    /\ UNCHANGED graphVars

UiNext ==
    \/ \E script \in Scripts : Open(script)
    \/ \E button \in {"skip_intro", "Previous Stage", "Next Stage", "Basic Company Info",
                       "Add Financial Data", "Add External Context"} : Click(button)
    \/ \E k \in 1 .. Len(Pages) : Select(Pages[k])
    \/ Toggle
    \/ \E k \in 1 .. Len(VizOptions) : SelectVisualization(VizOptions[k])
    \/ AppRun
    \/ \E a \in JourneyPages : JourneyRun(a)
    \/ KnowledgeGraphsRun
    \/ \E script \in ExamplePages : ExampleRun(script)

(***************************************************************************)
(* utils/state.py: the helpers that write the session state.  Pages 3 to 6 *)
(* import set_state and no script calls any of them, so they are no step   *)
(* of a script run: each is an action of its own, called on the session    *)
(* state as it stands, with run.shown holding what the call gave back.     *)
(***************************************************************************)
\* A helper came back to its caller with a value, an exception, or the rerun
\* request of st.experimental_rerun(); flow is the page list the functions
\* returned by the last track_page_flow call are bound to.
CameBack(outcome, flow) ==
    /\ run' = [run EXCEPT !.shown = outcome, !.due = (outcome = <<"rerun">>), !.flow = flow]
    /\ UNCHANGED widgets
    /\ UNCHANGED storeVars
    /\ UNCHANGED graphVars

\* set_state(key, value)
SetState(key, value) ==
    /\ session_state' = Assign(session_state, key :> value)
    /\ CameBack(<<"set_state", "None">>, run.flow)

\* increment_state(key, step, min_value, max_value): an absent key counts from
\* 0, the lower bound is applied before the upper one.  <<>> stands for None.
IncrementState(key, step, min_value, max_value) ==
    LET start == IF key \in DOMAIN session_state THEN session_state[key] ELSE 0
        raised == IF min_value # <<>> THEN Max(min_value[1], start + step) ELSE start + step
        new_value == IF max_value # <<>> THEN Min(max_value[1], raised) ELSE raised
    IN  /\ new_value \in -MaxValue .. MaxValue
        /\ session_state' = Assign(session_state, key :> new_value)
        /\ CameBack(<<"increment_state", new_value>>, run.flow)

\* toggle_state(key): an absent key is set to False first.
ToggleState(key) ==
    LET start == IF key \in DOMAIN session_state THEN session_state[key] ELSE FALSE
    IN  /\ session_state' = Assign(session_state, key :> ~start)
        /\ CameBack(<<"toggle_state", ~start>>, run.flow)

\* pages.index(page_name): the position of the first occurrence, from 0.
Index(pages, page_name) ==
    (CHOOSE i \in 1 .. Len(pages) :
        pages[i] = page_name /\ \A j \in 1 .. i - 1 : pages[j] # page_name) - 1

\* track_page_flow(pages, current_page): page_index is set to 0 when absent and
\* to the position of current_page when that is one of the pages; then
\* pages[current_index] is read.  current_page is <<>> for None.
TrackPageFlow(pages, current_page) ==
    LET start == IF "page_index" \in DOMAIN session_state THEN session_state
                 ELSE Assign(session_state, [page_index |-> 0])
        state == IF current_page # <<>> /\ \E i \in 1 .. Len(pages) : pages[i] = current_page[1]
                 THEN [start EXCEPT !.page_index = Index(pages, current_page[1])]
                 ELSE start
        current_index == state.page_index
        current == Subscript(pages, current_index)
    IN  /\ session_state' = state
        /\ IF current[1] # "ok"
           THEN CameBack(current, run.flow)
           ELSE CameBack(<<"track_page_flow", current[2], current_index = 0,
                           current_index = Len(pages) - 1>>, <<pages>>)

\* next_page() of the last track_page_flow result.
NextPage ==
    /\ run.flow # <<>>
    /\ IF session_state.page_index < Len(run.flow[1]) - 1
       THEN /\ session_state' = [session_state EXCEPT !.page_index = @ + 1]
            /\ CameBack(<<"rerun">>, run.flow)
       ELSE /\ session_state' = session_state
            /\ CameBack(<<"next_page", "None">>, run.flow)

\* prev_page() of the last track_page_flow result.
PrevPage ==
    /\ run.flow # <<>>
    /\ IF session_state.page_index > 0
       THEN /\ session_state' = [session_state EXCEPT !.page_index = @ - 1]
            /\ CameBack(<<"rerun">>, run.flow)
       ELSE /\ session_state' = session_state
            /\ CameBack(<<"prev_page", "None">>, run.flow)

\* goto_page(page_name) of the last track_page_flow result.
GotoPage(page_name) ==
    /\ run.flow # <<>>
    /\ IF \E i \in 1 .. Len(run.flow[1]) : run.flow[1][i] = page_name
       THEN /\ session_state' = [session_state EXCEPT
                                    !.page_index = Index(run.flow[1], page_name)]
            /\ CameBack(<<"rerun">>, run.flow)
       ELSE /\ session_state' = session_state
            /\ CameBack(<<"goto_page", "None">>, run.flow)

\* The helpers called in any order; the page lists are the first options of
\* the sidebar radio.
StateNext ==
    \/ \E key \in {"journey_stage", "page_index"}, value \in {0, 2, 7} : SetState(key, value)
    \/ \E value \in BOOLEAN : SetState("show_intro", value)
    \/ \E key \in {"journey_stage", "page_index"}, step \in {-1, 1, 5},
          min_value \in {<<>>, <<0>>}, max_value \in {<<>>, <<4>>} :
            IncrementState(key, step, min_value, max_value)
    \/ ToggleState("show_intro")
    \/ \E n \in {0, 2, 3}, current_page \in {<<>>} \cup {<<Pages[k]>> : k \in 1 .. 4} :
            TrackPageFlow(SubSeq(Pages, 1, n), current_page)
    \/ NextPage
    \/ PrevPage
    \/ \E k \in 1 .. 4 : GotoPage(Pages[k])

GraphInit ==
    /\ bundle = NoAttrs
    /\ damaged = FALSE
    /\ result = NoResult
    /\ layers = NoLayers
    /\ sequence = <<>>
    /\ concentration = [built |-> FALSE]

Init == StoreInit /\ GraphInit /\ UiInit

\* The file store and the pages that load from it.
Next ==
    \/ RunGenerateAllData
    \/ \E a \in ApplicantTypes, f \in AllFiles : RemoveFile(a, f)
    \/ \E a \in JourneyPages, f \in AllFiles : DamageFile(a, f)
    \/ \E a \in ApplicantTypes : CallLoadApplicantData(a)
    \/ \E a \in JourneyPages : PageRun(a)

Spec == Init /\ [][Next]_vars

\* Concurrent first-time loading: the sessions' steps interleaved.
RaceSpec == Init /\ [][RaceNext]_vars

\* One browser session using app.py, the knowledge-graph page, the example
\* pages and the loan-journey pages.
UiSpec == Init /\ [][UiNext]_vars

\* The session-state helpers of utils/state.py, called one at a time.
StateSpec == Init /\ [][StateNext]_vars

\* A first load of the dataset of archetype a: load_applicant_data returns
\* None on the empty store, generate_all_data writes the files with the noise
\* of the run's generator, and the second load_applicant_data returns them.
LoadBundle(a, seed) ==
    /\ Fresh
    /\ ~LoadApplicantData(files, a).loaded
    /\ LET fs2 == GenerateAllData(files, NextClock(files)) IN
          /\ LoadApplicantData(fs2, a).loaded
          /\ files' = fs2
          /\ clock' = NextClock(files)
          /\ out' = OutputOf(files)
          /\ load_result' = Returned(a, LoadApplicantData(fs2, a))
    /\ bundle' = GeneratedBundle(a, seed)
    /\ UNCHANGED <<damaged, result, layers, sequence>>
    /\ UNCHANGED <<removed, page, sessions>>
    /\ UNCHANGED uiVars
    /\ UNCHANGED concentration

\* company_profile.json without the key k.
DropProfileKey(k) ==
    /\ Loaded /\ ~damaged /\ Unused
    /\ k \in DOMAIN bundle.company_profile
    /\ bundle' = [bundle EXCEPT !.company_profile =
                    [x \in (DOMAIN @) \ {k} |-> @[x]]]
    /\ damaged' = TRUE
    /\ UNCHANGED <<result, layers, sequence>>
    /\ UNCHANGED storeVars
    /\ UNCHANGED uiVars
    /\ UNCHANGED concentration

\* financial_data.csv and risk_scores.csv with only their first n rows.
TruncateSeries(n) ==
    /\ Loaded /\ ~damaged /\ Unused
    /\ bundle' = [bundle EXCEPT !.financial_data = SubSeq(@, 1, n),
                                !.risk_scores = SubSeq(@, 1, n)]
    /\ damaged' = TRUE
    /\ UNCHANGED <<result, layers, sequence>>
    /\ UNCHANGED storeVars
    /\ UNCHANGED uiVars
    /\ UNCHANGED concentration

\* risk_scores.csv alone with only its first n rows.
TruncateRiskScores(n) ==
    /\ Loaded /\ ~damaged /\ Unused
    /\ bundle' = [bundle EXCEPT !.risk_scores = SubSeq(@, 1, n)]
    /\ damaged' = TRUE
    /\ UNCHANGED <<result, layers, sequence>>
    /\ UNCHANGED storeVars
    /\ UNCHANGED uiVars
    /\ UNCHANGED concentration

\* external_context.json edited by hand: the second source switched off, a
\* third evidence item under the first source, or the map emptied.
ContextEdits == {"inactive", "third_item", "empty"}

EditedContext(ctx, edit) ==
    CASE edit = "inactive" ->
            [ctx EXCEPT !.source[ctx.order[2]].active = FALSE]
      [] edit = "third_item" ->
            [ctx EXCEPT !.source[ctx.order[1]].sources =
                Append(@, [name |-> "Analyst Note", type |-> "report",
                           reliability |-> 80, date |-> 90])]
      [] edit = "empty" -> NoContext

EditContext(edit) ==
    /\ Loaded /\ ~damaged /\ Unused
    /\ bundle' = [bundle EXCEPT !.external_context = EditedContext(@, edit)]
    /\ damaged' = TRUE
    /\ UNCHANGED <<result, layers, sequence>>
    /\ UNCHANGED storeVars
    /\ UNCHANGED uiVars
    /\ UNCHANGED concentration

\* G = get_graph_for_stage(applicant_data, current_stage, stage_to_index)
GetGraph(stage, mapping) ==
    /\ Loaded /\ Unused
    /\ result' = [called |-> TRUE, stage |-> stage, mapping |-> mapping,
                  G |-> GetGraphForStage(bundle, stage, mapping).G,
                  printed |-> GetGraphForStage(bundle, stage, mapping).printed]
    /\ UNCHANGED <<bundle, damaged, layers, sequence>>
    /\ UNCHANGED storeVars
    /\ UNCHANGED uiVars
    /\ UNCHANGED concentration

\* The three builders on one input: the profile, the records of month i (or,
\* with frames, the whole series) and the context of the bundle.
BuildLayers(frames, i) ==
    /\ Loaded /\ ~damaged /\ Unused
    /\ LET p == bundle.company_profile
           f == IF frames THEN DataFrame(bundle.financial_data)
                ELSE Series(Iloc(bundle.financial_data, i))
           r == IF frames THEN DataFrame(bundle.risk_scores)
                ELSE Series(Iloc(bundle.risk_scores, i))
       IN  layers' = [built |-> TRUE, frames |-> frames, index |-> i,
                      initial |-> CreateInitialKnowledgeGraph(p),
                      expanded |-> CreateExpandedKnowledgeGraph(p, f),
                      comprehensive |->
                          CreateComprehensiveKnowledgeGraph(p, f, r, bundle.external_context)]
    /\ UNCHANGED <<bundle, damaged, result, sequence>>
    /\ UNCHANGED storeVars
    /\ UNCHANGED uiVars
    /\ UNCHANGED concentration

\* graphs = create_kg_growth_sequence(): it takes no dataset.
CallCreateKgGrowthSequence ==
    /\ Fresh
    /\ sequence' = CreateKgGrowthSequence
    /\ UNCHANGED <<bundle, damaged, result, layers>>
    /\ UNCHANGED storeVars
    /\ UNCHANGED uiVars
    /\ UNCHANGED concentration

Mappings(stage) == {NoMapping} \cup {Mapping((stage :> i)) : i \in 0 .. MaxIndex}

\* G = create_customer_concentration_graph(): it takes no dataset.
CallCreateCustomerConcentrationGraph ==
    /\ Fresh
    /\ concentration' = [built |-> TRUE, G |-> CreateCustomerConcentrationGraph]
    /\ UNCHANGED <<bundle, damaged, result, layers, sequence>>
    /\ UNCHANGED storeVars
    /\ UNCHANGED uiVars

GraphNext ==
    \/ \E a \in ApplicantTypes, seed \in Seeds : LoadBundle(a, seed)
    \/ \E k \in ProfileKeys : DropProfileKey(k)
    \/ \E n \in 0 .. MaxRows : TruncateSeries(n)
    \/ \E n \in 1 .. MaxRows : TruncateRiskScores(n)
    \/ \E edit \in ContextEdits : EditContext(edit)
    \/ \E stage \in StageNames \cup {"Other"} :
          \E mapping \in Mappings(stage) : GetGraph(stage, mapping)
    \/ \E i \in 0 .. MONTHS - 1 : BuildLayers(FALSE, i)
    \/ BuildLayers(TRUE, 0)
    \/ CallCreateKgGrowthSequence
    \/ CallCreateCustomerConcentrationGraph

GraphSpec == Init /\ [][GraphNext]_vars

(***************************************************************************)
(* Claims about the generated series.                                      *)
(***************************************************************************)
\* The six score columns of generate_risk_scores.
ScoreFields ==
    {"risk_score", "confidence_score", "financial_health_score",
     "management_risk_score", "industry_risk_score", "external_context_score"}

\* The bundle as generated, with both series in it.
Generated == Loaded /\ ~damaged

\* C8: for each archetype the generated financial series and the generated
\* risk series have exactly 12 records each, so they have equal length and
\* every default stage index (0, 2, 5, 8, 11) addresses a record in both.
C8_TwelveRecords ==
    Generated =>
        /\ Len(bundle.financial_data) = 12
        /\ Len(bundle.risk_scores) = 12
        /\ \A s \in StageNames :
              /\ DefaultStageToIndex[s] \in {0, 2, 5, 8, 11}
              /\ IlocOk(bundle.financial_data, DefaultStageToIndex[s])
              /\ IlocOk(bundle.risk_scores, DefaultStageToIndex[s])

\* A generated bundle whose last default index (11, "Monitoring Phase") has
\* been read from both series without an error.
C8_Witness ==
    /\ Generated
    /\ result.called /\ ~result.mapping.given
    /\ result.stage = "Monitoring Phase"
    /\ result.printed = NoError

\* C9: for every archetype, month and noise draw, the risk score, the
\* confidence score and the four component scores lie in [0.05, 0.95] and
\* the debt ratio lies in [0.1, 0.9].
C9_ScoresWithinClampRange ==
    (Loaded /\ {"financial_data", "risk_scores"} \subseteq DOMAIN bundle) =>
        /\ \A i \in 1 .. Len(bundle.risk_scores) : \A c \in ScoreFields :
              /\ 50000 <= bundle.risk_scores[i][c]
              /\ bundle.risk_scores[i][c] <= 950000
        /\ \A i \in 1 .. Len(bundle.financial_data) :
              /\ 1000000 <= bundle.financial_data[i].debt_ratio
              /\ bundle.financial_data[i].debt_ratio <= 9000000

\* A generated bundle in which trend and noise carried one score past 0.95
\* and another below 0.05, and the clamps held them.
C9_Witness ==
    /\ Generated
    /\ \E i \in 1 .. Len(bundle.risk_scores) :
          bundle.risk_scores[i].financial_health_score = 950000
    /\ \E i \in 1 .. Len(bundle.risk_scores) :
          bundle.risk_scores[i].management_risk_score = 50000

\* The ratio columns of a generated financial series lie strictly inside the
\* bounds their expressions apply (debt_ratio: 0.1 and 0.9, profit_margin:
\* 0.01), so that within the trend and noise of the generator neither bound
\* is ever the value stored.
RatioClampsIdle ==
    (Generated /\ "financial_data" \in DOMAIN bundle) =>
        \A i \in 1 .. Len(bundle.financial_data) :
            /\ 1000000 < bundle.financial_data[i].debt_ratio
            /\ bundle.financial_data[i].debt_ratio < 9000000
            /\ 100000 < bundle.financial_data[i].profit_margin

(***************************************************************************)
(* Claims about the graphs.                                                *)
(***************************************************************************)
\* The bundle has the components and the profile keys the builders subscript.
WellFormed ==
    /\ {"company_profile", "financial_data", "risk_scores"} \subseteq DOMAIN bundle
    /\ \A k \in 1 .. Len(RequiredProfileKeys) :
          RequiredProfileKeys[k] \in DOMAIN bundle.company_profile

\* The stage before stage s.
PreviousStage(s) == Stages[(CHOOSE k \in 2 .. Len(Stages) : Stages[k] = s) - 1]

\* C1: for every journey stage S but the first, the graph get_graph_for_stage
\* returns for S, with the default mapping over a generated dataset, has every
\* node and every edge of the graph it returns for stage S-1.
C1_StageGraphsGrow ==
    (Generated /\ result.called /\ ~result.mapping.given
       /\ result.stage \in StageNames \ {Stages[1]}) =>
        Subgraph(GetGraphForStage(bundle, PreviousStage(result.stage), NoMapping).G, result.G)

\* C2: for the same profile, financial record, risk record and context the
\* initial graph is contained in the expanded graph and the expanded graph in
\* the comprehensive graph, and in create_kg_growth_sequence G1 is contained
\* in G2, G2 in G3, G3 in G4: no step removes a node or an edge.
C2_BuildersAdditive ==
    /\ layers.built =>
          /\ Subgraph(layers.initial, layers.expanded)
          /\ Subgraph(layers.expanded, layers.comprehensive)
    /\ sequence # <<>> =>
          \A k \in 1 .. Len(sequence) - 1 : Subgraph(sequence[k], sequence[k + 1])

\* The three builders have run on the whole series, and each has added nodes.
C2_Witness ==
    /\ layers.built /\ layers.frames
    /\ Cardinality(DOMAIN layers.initial.node) < Cardinality(DOMAIN layers.expanded.node)
    /\ Cardinality(DOMAIN layers.expanded.node) < Cardinality(DOMAIN layers.comprehensive.node)
    /\ <<"Temporal Intelligence">> \in DOMAIN layers.comprehensive.node

\* C3: if an exception is raised while get_graph_for_stage builds the graph
\* (the profile lacks a required key, a series has no row, ...) the
\* call returns a graph with exactly one node and no edge, and the node's
\* tooltip is a non-empty string that contains the error text.
C3_ExceptionGivesPlaceholder ==
    (result.called /\ (result.printed # NoError \/ ~WellFormed)) =>
        /\ result.printed # NoError
        /\ DOMAIN result.G.node = {<<"Error">>}
        /\ DOMAIN result.G.edge = {}
        /\ "title" \in DOMAIN result.G.node[<<"Error">>]
        /\ LET title == result.G.node[<<"Error">>].title
               n == Len(result.printed)
           IN  /\ title # <<>>
               /\ Len(title) > n
               /\ SubSeq(title, Len(title) - n + 1, Len(title)) = result.printed

\* A call for a late stage on a bundle whose profile lacks credit_score.
C3_Witness ==
    /\ result.called
    /\ result.stage = "Decision Point"
    /\ "company_profile" \in DOMAIN bundle
    /\ "credit_score" \notin DOMAIN bundle.company_profile
    /\ result.printed = KeyErrorText("credit_score")

\* C4: when the mapping gives an index beyond the bounds of the series (of a
\* bundle otherwise well formed, with series of one length), the call returns
\* the graph it returns for the last valid index, length - 1, and neither an
\* error nor the placeholder.
C4_IndexBeyondBoundsClamped ==
    (/\ result.called /\ result.mapping.given
     /\ WellFormed
     /\ Len(bundle.financial_data) >= 1
     /\ Len(bundle.risk_scores) = Len(bundle.financial_data)
     /\ result.mapping.map[result.stage] >= Len(bundle.financial_data)) =>
        /\ result.printed = NoError
        /\ <<"Error">> \notin DOMAIN result.G.node
        /\ result.G = GetGraphForStage(bundle, result.stage,
                          Mapping((result.stage :> Len(bundle.financial_data) - 1))).G

\* "Risk Assessment" asked with index 13 of a 12-month dataset.
C4_Witness ==
    /\ Generated
    /\ result.called /\ result.mapping.given
    /\ result.stage = "Risk Assessment"
    /\ result.mapping.map[result.stage] = 13
    /\ result.printed = NoError
    /\ <<"Risk Assessment">> \in DOMAIN result.G.node

\* The record index get_graph_for_stage uses for the stage of the last call:
\* the one the mapping (or the default mapping) gives, at most the last one.
ResultIndex ==
    Min(IF result.mapping.given THEN result.mapping.map[result.stage]
        ELSE DefaultStageToIndex[result.stage],
        Len(bundle.financial_data) - 1)

LayerNodes(G) ==
    {<<"Financial Metrics">>, <<"Risk Assessment">>, <<"External Context">>}
        \cap DOMAIN G.node

\* C12: get_graph_for_stage chooses the builder by stage name: "Initial
\* Application" gives the base graph (no financial, risk or context node);
\* "Information Gathering" the expanded graph of the financial record at the
\* stage's index (financial layer, no risk or context node); the three later
\* stages the comprehensive graph of the financial and risk records at the
\* stage's index (risk and context layers).
C12_BuilderChosenByStage ==
    (Generated /\ result.called /\ result.stage \in StageNames) =>
        LET p == bundle.company_profile
            f == Series(Iloc(bundle.financial_data, ResultIndex))
            r == Series(Iloc(bundle.risk_scores, ResultIndex))
        IN  /\ result.printed = NoError
            /\ CASE result.stage = "Initial Application" ->
                        /\ result.G = CreateInitialKnowledgeGraph(p)
                        /\ LayerNodes(result.G) = {}
                 [] result.stage = "Information Gathering" ->
                        /\ result.G = CreateExpandedKnowledgeGraph(p, f)
                        /\ LayerNodes(result.G) = {<<"Financial Metrics">>}
                 [] OTHER ->
                        /\ result.G = CreateComprehensiveKnowledgeGraph(
                                          p, f, r, bundle.external_context)
                        /\ LayerNodes(result.G) =
                               {<<"Financial Metrics">>, <<"Risk Assessment">>,
                                <<"External Context">>}

\* C12 witness: "Information Gathering" asked with a mapping that gives month
\* 7: the graph carries that month's revenue and no risk layer.
C12_Witness ==
    /\ Generated /\ result.called
    /\ result.stage = "Information Gathering"
    /\ result.mapping.given /\ result.mapping.map[result.stage] = 7
    /\ <<"Financial Metrics">> \in DOMAIN result.G.node
    /\ <<"Risk Assessment">> \notin DOMAIN result.G.node
    /\ result.G # CreateExpandedKnowledgeGraph(bundle.company_profile,
                      Series(Iloc(bundle.financial_data, 2)))

\* The nodes of G adjacent to n.
Neighbours(G, n) == {m \in DOMAIN G.node : {n, m} \in DOMAIN G.edge /\ m # n}

\* The nodes of G drawn with the given size (30 root, 20 category, 15 leaf).
NodesOfSize(G, size) ==
    {n \in DOMAIN G.node : "size" \in DOMAIN G.node[n] /\ G.node[n].size = size}

\* C13: for strong_applicant at "Initial Application" the graph has one root,
\* the three categories Basic Information, Loan Request and Credit History,
\* each adjacent to the root, their 5 + 4 + 3 leaves, and no other edge than
\* root-category and category-leaf ones: it is a tree.
C13_StrongInitialIsTree ==
    (/\ Generated /\ result.called
     /\ bundle.company_profile.name = "TechInnovate Solutions"
     /\ result.stage = "Initial Application") =>
        LET G == result.G
            root == <<"TechInnovate Solutions">>
            cats == {<<"Basic Information">>, <<"Loan Request">>, <<"Credit History">>}
            leaves == NodesOfSize(G, 15)
        IN  /\ NodesOfSize(G, 30) = {root}
            /\ NodesOfSize(G, 20) = cats
            /\ DOMAIN G.node = {root} \cup cats \cup leaves
            /\ \A c \in cats : {root, c} \in DOMAIN G.edge
            /\ Cardinality(Neighbours(G, <<"Basic Information">>) \cap leaves) = 5
            /\ Cardinality(Neighbours(G, <<"Loan Request">>) \cap leaves) = 4
            /\ Cardinality(Neighbours(G, <<"Credit History">>) \cap leaves) = 3
            /\ Cardinality(leaves) = 12
            /\ \A e \in DOMAIN G.edge :
                  \/ \E c \in cats : e = {root, c}
                  \/ \E c \in cats, l \in leaves : e = {c, l}
            /\ Cardinality(DOMAIN G.edge) = Cardinality(DOMAIN G.node) - 1

\* C13 witness: the call was made for strong_applicant and returned the graph
\* with the "Credit Score: A" leaf under Credit History.
C13_Witness ==
    /\ Generated /\ result.called
    /\ bundle.company_profile.name = "TechInnovate Solutions"
    /\ result.stage = "Initial Application"
    /\ result.printed = NoError
    /\ {<<"Credit History">>, <<"Credit Score: ", "A">>} \in DOMAIN result.G.edge

\* The nodes of G whose label starts with the given text.
NodesLabelled(G, text) == {n \in DOMAIN G.node : n[1] = text}

\* C14 (as stated): for unclear_applicant at "Information Gathering" the graph
\* has a leaf whose tooltip carries the 28% customer concentration, and that
\* leaf's edge is strictly wider than the edge of the "Others" customer node.
C14_ConcentrationEdgeWiderThanOthers ==
    (/\ Generated /\ result.called
     /\ bundle.company_profile.name = "ManufacturePro Inc."
     /\ result.stage = "Information Gathering") =>
        LET G == result.G
        IN  \E leaf \in NodesOfSize(G, 15) :
               /\ G.node[leaf].title[1] = "Largest Customer: "
               /\ G.node[leaf].title[2] = "28"
               /\ \E others \in NodesLabelled(G, "Others") \cup NodesLabelled(G, "Others: ") :
                     \E c \in Neighbours(G, leaf), d \in Neighbours(G, others) :
                         G.edge[{c, leaf}].width > G.edge[{d, others}].width

\* The graphs the builders have returned for the generated bundle: the one of
\* the last get_graph_for_stage call and the three of the last layered build.
BuilderGraphs ==
    (IF Generated /\ result.called /\ result.printed = NoError THEN {result.G} ELSE {})
    \cup (IF Generated /\ layers.built
          THEN {layers.initial, layers.expanded, layers.comprehensive} ELSE {})

\* The nodes of G within three edges of n.
Within3(G, n) ==
    LET step(S) == S \cup UNION {Neighbours(G, m) : m \in S}
    IN  step(step(step({n})))

\* C15: in every graph the builders return for generated data, every category
\* node (size 20) is adjacent to the root (size 30), every leaf or context
\* source (size 15) to a category, every evidence item (size 10) to a context
\* source of the External Context category; so every node is reachable from
\* the root.
C15_EveryNodeHangsFromRoot ==
    \A G \in BuilderGraphs :
        LET root == <<bundle.company_profile.name>>
        IN  /\ NodesOfSize(G, 30) = {root}
            /\ \A c \in NodesOfSize(G, 20) : {root, c} \in DOMAIN G.edge
            /\ \A l \in NodesOfSize(G, 15) : Neighbours(G, l) \cap NodesOfSize(G, 20) # {}
            /\ \A e \in NodesOfSize(G, 10) :
                  \E s \in Neighbours(G, e) \cap NodesOfSize(G, 15) :
                      {<<"External Context">>, s} \in DOMAIN G.edge
            /\ DOMAIN G.node = NodesOfSize(G, 30) \cup NodesOfSize(G, 20)
                                  \cup NodesOfSize(G, 15) \cup NodesOfSize(G, 10)
            /\ Within3(G, root) = DOMAIN G.node

\* C15 witness: a comprehensive graph with an evidence item three edges from
\* the root.
C15_Witness ==
    /\ Generated /\ layers.built
    /\ LET G == layers.comprehensive
       IN  /\ NodesOfSize(G, 10) # {}
           /\ <<"Risk Assessment">> \in NodesOfSize(G, 20)
           /\ <<"Temporal Intelligence">> \in NodesOfSize(G, 20)

\* C16 (as stated): every graph get_graph_for_stage returns, the placeholder
\* included, has a size, a color and a tooltip on every node and a width, a
\* color and a tooltip/label on every edge.
C16_EveryEdgeHasColorAndTooltip ==
    result.called =>
        /\ \A n \in DOMAIN result.G.node :
              {"size", "color", "title"} \subseteq DOMAIN result.G.node[n]
        /\ \A e \in DOMAIN result.G.edge :
              {"width", "color", "title"} \subseteq DOMAIN result.G.edge[e]

\* C16 (amended): every node of a returned graph carries its id, a size, a
\* color and a non-empty tooltip, and every edge joins two nodes of the graph
\* and carries a width; an edge carries a color only when it joins two
\* category nodes, and no edge carries a tooltip: the renderer draws an edge
\* without color in the default edge color and every edge with an empty
\* tooltip.
C16_NodesFullEdgesWidthOnly ==
    result.called =>
        LET G == result.G
        IN  /\ \A n \in DOMAIN G.node :
                  /\ {"size", "color", "title"} \subseteq DOMAIN G.node[n]
                  /\ G.node[n].title # <<>>
                  /\ PyvisNode(n, G.node[n]).title = G.node[n].title
            /\ \A e \in DOMAIN G.edge :
                  /\ e \subseteq DOMAIN G.node /\ Cardinality(e) = 2
                  /\ "width" \in DOMAIN G.edge[e]
                  /\ "title" \notin DOMAIN G.edge[e]
                  /\ "color" \in DOMAIN G.edge[e] => e \subseteq NodesOfSize(G, 20)
                  /\ PyvisEdge(G.edge[e]).title = <<>>
                  /\ "color" \notin DOMAIN G.edge[e] =>
                        PyvisEdge(G.edge[e]).color = COLORS.edge_default

\* C16 witness: a returned graph with an edge that carries a color (a
\* cross-category edge) and an edge that carries none.
C16_Witness ==
    /\ result.called /\ result.printed = NoError
    /\ \E e, f \in DOMAIN result.G.edge :
          /\ "color" \in DOMAIN result.G.edge[e]
          /\ DOMAIN result.G.edge[f] = {"width"}

\* The width of the edge from "Customer Base" to the node of customer c.
CustomerEdgeWidth(c) ==
    concentration.G.edge[{<<"Customer Base">>, CustomerNode(c)}].width

CustomersOfGraph == {Customers[k] : k \in 1 .. Len(Customers)}

\* C19: in the customer-concentration graph the width of a customer's edge is
\* max(1, percentage / 10); of two customers the one with the larger
\* percentage never has the thinner edge, and has the strictly wider one when
\* its percentage is above 10 -- for the customers of the graph and for every
\* pair of percentages up to MaxPercentage.
C19_EdgeWidthMonotonic ==
    concentration.built =>
        /\ \A c \in CustomersOfGraph :
              /\ {<<"Customer Base">>, CustomerNode(c)} \in DOMAIN concentration.G.edge
              /\ CustomerEdgeWidth(c) = Max(10, c.percentage)
        /\ \A c, d \in CustomersOfGraph :
              c.percentage > d.percentage =>
                  /\ CustomerEdgeWidth(c) >= CustomerEdgeWidth(d)
                  /\ c.percentage > 10 => CustomerEdgeWidth(c) > CustomerEdgeWidth(d)
        /\ \A p, q \in 0 .. MaxPercentage :
              p > q =>
                  /\ EdgeWidth(p) >= EdgeWidth(q)
                  /\ p > 10 => EdgeWidth(p) > EdgeWidth(q)

\* C19 witness: the graph has been built; Customer A (42%) has an edge of width
\* 4.2, Others (16%) one of 1.6, and Customers D and E (8%, 4%) both one of 1.
C19_Witness ==
    /\ concentration.built
    /\ CustomerEdgeWidth(Customers[1]) = 42
    /\ CustomerEdgeWidth(Customers[6]) = 16
    /\ CustomerEdgeWidth(Customers[4]) = 10
    /\ CustomerEdgeWidth(Customers[5]) = 10

\* C20: a graph snapshot is never mutated in place: after
\* create_kg_growth_sequence has built G4, each of G1, G2 and G3 still has
\* exactly the nodes and edges of its own stage, and none of the later stages'.
C20_EarlierSnapshotsUnchanged ==
    sequence # <<>> =>
        /\ sequence[1] = GrowthStage1
        /\ sequence[2] = GrowthStage2(GrowthStage1)
        /\ sequence[3] = GrowthStage3(GrowthStage2(GrowthStage1))
        /\ <<"Financial Metrics">> \notin DOMAIN sequence[1].node
        /\ <<"External Context">> \notin DOMAIN sequence[2].node
        /\ <<"Risk Assessment">> \notin DOMAIN sequence[3].node
        /\ {<<"Market Growth: 15%">>, <<"Revenue: $2.4M">>} \notin DOMAIN sequence[2].edge
        /\ {<<"Financial Health: Strong">>, <<"Financial Metrics">>}
               \notin DOMAIN sequence[3].edge
        /\ \A k \in 1 .. 3 :
              Cardinality(DOMAIN sequence[k].node) < Cardinality(DOMAIN sequence[k + 1].node)

\* C20 witness: the sequence has been returned, and G4 has the stage-4 layer
\* on top of everything G3 has.
C20_Witness ==
    /\ sequence # <<>>
    /\ <<"Risk Assessment">> \in DOMAIN sequence[4].node
    /\ {<<"Financial Health: Strong">>, <<"Financial Metrics">>} \in DOMAIN sequence[4].edge
    /\ DOMAIN sequence[3].node \subseteq DOMAIN sequence[4].node
    /\ DOMAIN sequence[3].node # DOMAIN sequence[4].node

\* The comprehensive graphs among the graphs the builders have returned.
ComprehensiveGraphs == {G \in BuilderGraphs : <<"Risk Assessment">> \in DOMAIN G.node}

\* Some leaf of G with the given label is joined to the category node.
LeafJoined(G, label, category) ==
    \E leaf \in NodesLabelled(G, label) : {leaf, <<category>>} \in DOMAIN G.edge

\* C21 (as stated): in the comprehensive graph of a risk record with the
\* component scores the Financial Health leaf is joined to "Financial
\* Metrics", the Management Risk leaf to "Management" and, with external
\* context present, the Industry Risk leaf to "External Context"; and every
\* node of the graph was added as a node (none was introduced by an edge).
C21_RiskLeavesCrossConnected ==
    \A G \in ComprehensiveGraphs :
        /\ NodesLabelled(G, "Financial Health: ") # {}
              => LeafJoined(G, "Financial Health: ", "Financial Metrics")
        /\ NodesLabelled(G, "Management Risk: ") # {}
              => LeafJoined(G, "Management Risk: ", "Management")
        /\ (NodesLabelled(G, "Industry Risk: ") # {} /\ <<"External Context">> \in DOMAIN G.node)
              => LeafJoined(G, "Industry Risk: ", "External Context")
        /\ \A n \in DOMAIN G.node : "size" \in DOMAIN G.node[n]

\* C22 (as stated): for a generated 12-month dataset the graph
\* get_graph_for_stage returns for "Risk Assessment", "Decision Point" and
\* "Monitoring Phase" has the "Temporal Intelligence" category joined to the
\* root, with three trend leaves and the cross edge to "Financial Metrics".
C22_LateStagesHaveTemporalLayer ==
    (/\ Generated /\ result.called
     /\ Len(bundle.financial_data) > 1
     /\ result.stage \in {"Risk Assessment", "Decision Point", "Monitoring Phase"}) =>
        LET G == result.G
            t == <<"Temporal Intelligence">>
        IN  /\ t \in DOMAIN G.node
            /\ {<<bundle.company_profile.name>>, t} \in DOMAIN G.edge
            /\ Cardinality(Neighbours(G, t) \cap NodesOfSize(G, 15)) = 3
            /\ {t, <<"Financial Metrics">>} \in DOMAIN G.edge

\* The index the mapping of the last call gives for its stage, before any clamp.
AskedIndex ==
    Get(IF result.mapping.given THEN result.mapping.map ELSE DefaultStageToIndex,
        result.stage, 0)

\* The bundle has all its components and profile keys, and a risk series
\* shorter than the financial series.
RiskShorter ==
    /\ Loaded
    /\ {"company_profile", "financial_data", "risk_scores"} \subseteq DOMAIN bundle
    /\ \A k \in 1 .. Len(RequiredProfileKeys) :
          RequiredProfileKeys[k] \in DOMAIN bundle.company_profile
    /\ Len(bundle.risk_scores) >= 1
    /\ Len(bundle.risk_scores) < Len(bundle.financial_data)

\* The last call was for a stage that needs the risk record, with an index
\* valid for the financial series and beyond the risk series.
BeyondRisk ==
    /\ RiskShorter /\ result.called
    /\ result.stage \notin {"Initial Application", "Information Gathering"}
    /\ AskedIndex < Len(bundle.financial_data)
    /\ AskedIndex >= Len(bundle.risk_scores)

\* C25: the clamp of get_graph_for_stage compares the index with the length of
\* the financial series only: with a shorter risk series and an index valid
\* for the financial series but beyond the risk series, a stage that needs the
\* risk record returns the single-node error placeholder, not the graph
\* clamped to the last risk record.
C25_ShortRiskSeriesGivesPlaceholder ==
    BeyondRisk =>
        /\ result.printed = IndexErrorText
        /\ result.G = FallbackGraph(IndexErrorText)
        /\ DOMAIN result.G.node = {<<"Error">>}
        /\ result.G # CreateComprehensiveKnowledgeGraph(
                          bundle.company_profile,
                          Series(Iloc(bundle.financial_data, AskedIndex)),
                          Series(Iloc(bundle.risk_scores, Len(bundle.risk_scores) - 1)),
                          Get(bundle, "external_context", NoContext))

\* "Decision Point" at its default index 8 on a bundle whose risk series has
\* one record and whose financial series has all twelve.
C25_Witness ==
    /\ BeyondRisk
    /\ result.stage = "Decision Point" /\ ~result.mapping.given
    /\ Len(bundle.financial_data) = MONTHS
    /\ DOMAIN result.G.node = {<<"Error">>}

\* The last call was for a name that is none of the five stage labels and has
\* no entry in the mapping used, on a well-formed bundle with records.
UnknownStage ==
    /\ result.called /\ WellFormed
    /\ Len(bundle.financial_data) >= 1 /\ Len(bundle.risk_scores) >= 1
    /\ result.stage \notin StageNames
    /\ result.stage \notin DOMAIN (IF result.mapping.given THEN result.mapping.map
                                   ELSE DefaultStageToIndex)

\* C26: for a stage name that is not one of the five fixed labels (and so has
\* no entry in the mapping of the labels), get_graph_for_stage neither fails
\* nor returns the placeholder: the name maps to index 0 and falls into the
\* last branch, so the result is the comprehensive graph of the first financial
\* and risk records.
C26_UnknownStageIsComprehensiveAtZero ==
    UnknownStage =>
        /\ result.printed = NoError
        /\ <<"Error">> \notin DOMAIN result.G.node
        /\ AskedIndex = 0
        /\ result.G = CreateComprehensiveKnowledgeGraph(
                          bundle.company_profile,
                          Series(Iloc(bundle.financial_data, 0)),
                          Series(Iloc(bundle.risk_scores, 0)),
                          Get(bundle, "external_context", NoContext))

\* The name "Other" asked of a generated bundle with the default mapping: the
\* graph has the risk layer, which only the comprehensive builder adds.
C26_Witness ==
    /\ UnknownStage /\ Generated
    /\ result.stage = "Other" /\ ~result.mapping.given
    /\ <<"Risk Assessment">> \in DOMAIN result.G.node
    /\ <<"External Context">> \in DOMAIN result.G.node

\* The context map the last call read: the bundle's, or the empty one.
ContextRead == Get(bundle, "external_context", NoContext)

\* The last call returned a comprehensive graph.
ComprehensiveReturned ==
    /\ result.called /\ result.printed = NoError
    /\ result.stage \notin {"Initial Application", "Information Gathering"}

\* The context sources drawn in G: the nodes of the source size under
\* "External Context".
SourcesDrawn(G) ==
    {n \in Neighbours(G, <<"External Context">>) : G.node[n].size = 15}

\* The evidence nodes drawn under source n.
EvidenceDrawn(G, n) == {m \in Neighbours(G, n) : G.node[m].size = 10}

\* The names of the first two evidence items of a source.
FirstTwo(source_data) ==
    IF "sources" \in DOMAIN source_data
    THEN {<<Get(source_data.sources[i], "name", "Source")>> :
             i \in 1 .. Min(2, Len(source_data.sources))}
    ELSE {}

\* C27: in the comprehensive graph only the context sources whose active flag
\* is true are nodes under "External Context", each of them has at most two
\* evidence nodes (its first two evidence items), and with an empty or absent
\* context map there is no "External Context" node at all.
C27_OnlyActiveSourcesTwoEvidenceEach ==
    ComprehensiveReturned =>
        LET G == result.G
            ctx == ContextRead
            names == {ctx.order[k] : k \in 1 .. Len(ctx.order)}
            active == {s \in names : Get(ctx.source[s], "active", FALSE)}
        IN  IF names = {}
            THEN <<"External Context">> \notin DOMAIN G.node
            ELSE /\ <<"External Context">> \in DOMAIN G.node
                 /\ SourcesDrawn(G) = {<<s>> : s \in active}
                 /\ \A s \in names \ active : <<s>> \notin DOMAIN G.node
                 /\ \A s \in active :
                       /\ Cardinality(EvidenceDrawn(G, <<s>>)) <= 2
                       /\ EvidenceDrawn(G, <<s>>) = FirstTwo(ctx.source[s])

\* A source switched off: its node is missing while the other three are drawn.
C27_Witness ==
    /\ ComprehensiveReturned
    /\ Len(ContextRead.order) = 4
    /\ ~ContextRead.source[ContextRead.order[2]].active
    /\ Cardinality(SourcesDrawn(result.G)) = 3

\* A source with three evidence items: two evidence nodes are drawn under it.
C27_WitnessThirdItem ==
    /\ ComprehensiveReturned
    /\ Len(ContextRead.order) = 4
    /\ Len(ContextRead.source[ContextRead.order[1]].sources) = 3
    /\ Cardinality(EvidenceDrawn(result.G, <<ContextRead.order[1]>>)) = 2

\* The profile has a customer_count other than "General public".
HasCustomerCount(p) ==
    "customer_count" \in DOMAIN p /\ p.customer_count # "General public"

\* The leaves drawn under the "Customers" category of G.
CustomerLeaves(G) == {n \in Neighbours(G, <<"Customers">>) : G.node[n].size = 15}

\* C28: the "Customers" category and its two leaves are in the expanded graph
\* (and the comprehensive graph built on it) exactly when the profile has a
\* customer_count that is not "General public": with the generated profiles
\* it is present for strong_applicant and unclear_applicant and absent for
\* challenged_applicant at every stage.
C28_CustomersExactlyWithCustomerCount ==
    (result.called /\ result.printed = NoError) =>
        LET p == bundle.company_profile
            G == result.G
        IN  /\ result.stage # "Initial Application" =>
                  /\ <<"Customers">> \in DOMAIN G.node <=> HasCustomerCount(p)
                  /\ HasCustomerCount(p) =>
                        /\ {<<p.name>>, <<"Customers">>} \in DOMAIN G.edge
                        /\ CustomerLeaves(G) =
                              {<<"Count: ", p.customer_count>>,
                               <<"Concentration: ",
                                 Get(p, "largest_customer_percentage", "Unknown"), "%">>}
            /\ p = GenerateCompanyProfile("challenged_applicant") =>
                  <<"Customers">> \notin DOMAIN G.node
            /\ (/\ p \in {GenerateCompanyProfile("strong_applicant"),
                          GenerateCompanyProfile("unclear_applicant")}
                /\ result.stage # "Initial Application") =>
                  <<"Customers">> \in DOMAIN G.node

\* The challenged applicant's comprehensive graph: no "Customers" category.
C28_Witness ==
    /\ Generated /\ result.called /\ result.printed = NoError
    /\ bundle.company_profile = GenerateCompanyProfile("challenged_applicant")
    /\ result.stage = "Risk Assessment"
    /\ <<"Management">> \in DOMAIN result.G.node
    /\ <<"Customers">> \notin DOMAIN result.G.node

\* The unclear applicant's expanded graph: the category with its two leaves.
C28_WitnessPresent ==
    /\ Generated /\ result.called /\ result.printed = NoError
    /\ bundle.company_profile = GenerateCompanyProfile("unclear_applicant")
    /\ result.stage = "Information Gathering"
    /\ CustomerLeaves(result.G) = {<<"Count: ", "45">>, <<"Concentration: ", "28", "%">>}

(***************************************************************************)
(* Claims about the file store and the pages' data loading.                *)
(***************************************************************************)

\* C5 (as stated): a generate_all_data call regenerates every archetype that
\* has any of its nine files missing; so an archetype the call skipped has
\* all nine files.
C5_RegeneratesWhenAnyFileMissing ==
    out.called =>
        \A a \in out.skipped : \A f \in AllFiles : files[a][f] # 0

\* C6 (as stated): no run of a loan-journey page aborts, whatever files were
\* missing when it started.
C6_PageNeverAborts == \A a \in JourneyPages : page[a] # "aborted"

\* C7: a generate_all_data call leaves every file of an archetype whose data
\* already exists (its basic files are all present) exactly as it was,
\* whatever the call does for the other archetypes.
C7_ExistingDataUntouched ==
    [][out'.called =>
          \A a \in ApplicantTypes :
              (\A f \in BasicFiles : files[a][f] # 0) => files'[a] = files[a]]_vars

\* C7 witness: a call that skipped one archetype, whose files were written by
\* an earlier generation, while it regenerated another.
C7_Witness ==
    /\ out.called
    /\ \E a \in out.skipped, b \in out.generated :
          /\ \A f \in BasicFiles : files[a][f] # 0 /\ files[a][f] < clock
          /\ \A f \in AllFiles : files[b][f] = clock

\* C11: load_applicant_data is all-or-nothing: whatever the state of the file
\* store, a call returns either None or a bundle with all nine components,
\* never a bundle with some of them missing.
C11_LoadAllOrNothing ==
    load_result.called =>
        IF load_result.loaded
        THEN DOMAIN load_result.data = {LoadOrder[k].key : k \in 1..Len(LoadOrder)}
        ELSE DOMAIN load_result.data = {}

\* C11 witness: a call on a dataset of which the first files are readable and
\* a later one is missing or unparsable returned None.
C11_Witness ==
    /\ load_result.called
    /\ ~load_result.loaded
    /\ Readable(files, load_result.applicant_type, "company_profile.json")
    /\ \E f \in AllFiles : ~Readable(files, load_result.applicant_type, f)

\* Every session has finished its run of the page.
AllDone == \A s \in Sessions : sessions[s].pc \in {"rendered", "aborted"}

\* C18 (as stated): concurrent first-time loading is harmless: when every
\* session has finished, every component file of every archetype is present
\* and complete, and every session has loaded a complete dataset.
C18_ConcurrentFirstLoadHarmless ==
    AllDone =>
        /\ \A a \in ApplicantTypes, f \in AllFiles : files[a][f] > 0
        /\ \A s \in Sessions : sessions[s].pc = "rendered"

(***************************************************************************)
(* Claims about the navigation of app.py and the loan-journey pages.       *)
(***************************************************************************)
\* The introduction has been dismissed.
Dismissed == "show_intro" \in DOMAIN session_state /\ ~session_state.show_intro

\* C23: once the introduction has been dismissed, a run of app.py whose
\* sidebar selection already corresponds to the current page neither sets the
\* page nor requests a rerun: it ends at the dispatch, so navigation settles.
C23_NavigationSettles ==
    [][(AppRun /\ Dismissed /\ LowerReplace(widgets.radio) = session_state.page)
          => (session_state' = session_state /\ ~run'.due /\ run'.shown # <<"rerun">>)]_vars

\* The stage index of the session, once a loan-journey page has set it.
StageSet == "journey_stage" \in DOMAIN session_state

\* A loan-journey page has been drawn to its end.
JourneyDrawn == run.script \in JourneyPages /\ ~run.due /\ run.shown[1] = "stage"

\* C24, the state part: the index is within 0 .. number of stages - 1, and a
\* drawn page offers Previous Stage exactly above the first stage and Next
\* Stage exactly below the last.
C24_IndexInRange ==
    /\ StageSet => session_state.journey_stage \in 0 .. Len(Stages) - 1
    /\ JourneyDrawn =>
          /\ "Previous Stage" \in widgets.on_screen <=> session_state.journey_stage > 0
          /\ "Next Stage" \in widgets.on_screen <=>
                 session_state.journey_stage < Len(Stages) - 1

\* C24, the step part: a run after a click on Previous Stage lowers the index
\* by one, a run after a click on Next Stage raises it by one, and no other
\* step changes an index that is set.
C24_ClickMovesByOne ==
    /\ StageSet =>
          /\ StageSet'
          /\ session_state'.journey_stage # session_state.journey_stage =>
                /\ \E a \in JourneyPages : JourneyRun(a)
                /\ widgets.clicked \in {"Previous Stage", "Next Stage"}
    /\ \A a \in JourneyPages :
          JourneyRun(a) =>
             /\ widgets.clicked = "Previous Stage" =>
                   session_state'.journey_stage = session_state.journey_stage - 1
             /\ widgets.clicked = "Next Stage" =>
                   session_state'.journey_stage = session_state.journey_stage + 1

\* C24: after any sequence of Previous Stage and Next Stage clicks on the
\* loan-journey pages, starting from journey_stage = 0, the index stays within
\* 0 .. number of stages - 1: Previous is not available at the first stage,
\* Next is not available at the last, and each click changes the index by
\* exactly one.
C24_JourneyStageBounded == []C24_IndexInRange /\ [][C24_ClickMovesByOne]_vars

\* The last stage, reached by clicks and drawn: only Previous Stage is offered.
C24_Witness ==
    /\ JourneyDrawn
    /\ session_state.journey_stage = Len(Stages) - 1
    /\ run.stage_set_on \in JourneyPages
    /\ widgets.on_screen = {"Debug Mode", "Previous Stage"}

\* A run of a loan-journey page that no click preceded: the script does
\* nothing to the session state but initialise it.
OpeningRun(a) == JourneyRun(a) /\ widgets.clicked = "none"

\* C29: init_session_state sets only the keys absent from the session state
\* and leaves every key already present unchanged (here: the defaults of
\* app.py and of the loan-journey pages, at every run of a script); so a
\* journey_stage reached on one loan-journey page is still in effect after the
\* other loan-journey page initialises.
C29_InitKeepsPresentKeys ==
    [][/\ (AppRun \/ \E a \in JourneyPages : JourneyRun(a)) =>
             \A defaults \in {[page |-> "home", show_intro |-> TRUE], [journey_stage |-> 0]} :
                LET state == InitSessionState(session_state, defaults)
                IN  /\ DOMAIN state = DOMAIN session_state \cup DOMAIN defaults
                    /\ \A k \in DOMAIN session_state : state[k] = session_state[k]
                    /\ \A k \in DOMAIN defaults \ DOMAIN session_state : state[k] = defaults[k]
       /\ \A a \in JourneyPages :
             (OpeningRun(a) /\ StageSet) =>
                session_state'.journey_stage = session_state.journey_stage]_vars

\* The unclear applicant's page drawn at a stage above the first that was
\* reached on the strong applicant's page.
C29_Witness ==
    /\ JourneyDrawn
    /\ run.script = "unclear_applicant"
    /\ run.stage_set_on = "strong_applicant"
    /\ session_state.journey_stage > 0

\* The dates of a list of events do not decrease along the list.
InDateOrder(events) ==
    \A i, j \in 1 .. Len(events) : i < j => ~DateAfter(events[i].date, events[j].date)

\* C30: timeline events are rendered in date order: for every archetype the
\* event list the generator produces is in non-decreasing date order, and so
\* is the list a loan-journey page goes through when it draws its timeline.
C30_TimelineInDateOrder ==
    /\ \A a \in ApplicantTypes : InDateOrder(GenerateEvents(a))
    /\ JourneyDrawn => InDateOrder(run.shown[3])

\* The unclear applicant's page in the Monitoring Phase: the two events after
\* the first of March, drawn in order.
C30_Witness ==
    /\ JourneyDrawn
    /\ run.script = "unclear_applicant"
    /\ run.shown[2] = "Monitoring Phase"
    /\ Len(run.shown[3]) = 2
    /\ run.shown[3][1].date = <<2023, 3, 7>>
    /\ run.shown[3][2].date = <<2023, 3, 27>>

====
